---- MODULE Spec2Model ----
(***************************************************************************)
(* ferr_os: UEFI loader hand-off (frame allocator, 4-level page tables,    *)
(* kernel ELF mapping, boot sequence) as state machines.                   *)
(*                                                                         *)
(* Representation of 64-bit addresses: a pair <<pg, off>> standing for     *)
(* pg * 4096 + off, with 0 <= off < 4096.  The page limb stays below 2^31, *)
(* i.e. the model covers addresses below 2^43; every address the loader    *)
(* computes in the modelled runs (including phys + VIRT_MAPPING_OFFSET)    *)
(* lies in that range.                                                     *)
(***************************************************************************)
EXTENDS Integers, Sequences, FiniteSets, TLC

VARIABLES
    pc,             \* position of the running harness / of efi_main
    memory_map,     \* MemoryMap: the regions [0, next_free_entry_idx) in order
    next,           \* FrameAllocator.next
    start_next,     \* the cursor the FrameAllocator was constructed with
    allocated,      \* results of the allocate_frame calls so far (Options)
    mem,            \* physical memory: frame number -> content (sparse)
    l4,             \* frame number of the level-4 page table
    last,           \* record of the last page-table operation and its result
    fw_map,         \* the firmware memory map handed over by exit_boot_services
    kernel,         \* physical address of the kernel image buffer
    stack_addr,     \* physical address of the pages allocated for the kernel stack
    hdr,            \* the LOAD program header of the kernel ELF
    framebuffer,    \* FrameBufferInfo: addr and size
    context_switch, \* placement of context_switch in the loader's code
    boot_info,      \* address of the BootInfo structure
    cpu,            \* cr3 and the instruction of context_switch to execute next
    addr_arg,       \* the u64 handed to a VirtAddr constructor
    addr_result,    \* the constructor called and what it returned
    scancode_queue, \* SCANCODE_QUEUE: the ArrayQueue of the keyboard task
    kb_waker,       \* WAKER of the keyboard task: the registered waker, if any
    kb_woken,       \* the keyboard task has been woken and not yet polled again
    kb_poll,        \* position of the keyboard task inside ScancodeStream::poll_next
    kb_held,        \* the scancode popped by the second pop of poll_next
    kb_sent,        \* number of scancodes the keyboard ISR has handed to add_scancode
    kb_accepted,    \* the scancodes add_scancode pushed, in order
    kb_yielded,     \* the scancodes poll_next returned in Ready, in order
    tasks,          \* Executor: the ids of the live tasks
    ready,          \* Executor: the ready queue of task ids
    running,        \* Executor: the task being polled, if any
    STOP,           \* the global shutdown flag
    returned,       \* Executor::run has returned
    TIMER_FLAG,     \* timer.rs TIMER_FLAG: uninitialised, or the flag
    timer_waker,    \* timer.rs WAKER
    timer_poll,     \* position of timer_loop inside its poll
    manager,        \* TIMER_TASKS_MANAGER.tasks: id -> (ticks, waker)
    NEXT_ID,        \* Sleep::new's id counter
    sleepers,       \* per sleeping task: its durations, how many are done, its Sleep,
                    \*   the ticks observed and raised when it was created
    raised,         \* number of calls of raise_timer
    busy_ticks,     \* how many of them came while the executor was not halted
    timer_logged,   \* the last raise_timer logged that the flag was not consumed
    observed,       \* number of ticks timer_loop has observed (decrement_all calls)
    done,           \* the Sleeps that returned Ready, in order: task and position
    to_type,        \* the characters still to be typed
    keys,           \* typed characters the keyboard task has not consumed
    key_waker,      \* the waker the keyboard task registered
    input_buffer,   \* the line buffer of the keyboard task
    consumed,       \* the characters the keyboard task has consumed
    lapic,          \* local APIC, vector 32: interrupt requested, interrupt in service
    timer_I,        \* timer_interrupt_handler's static counter I
    timer_log,      \* number of lines timer_interrupt_handler has logged
    rflags,         \* the RFLAGS register
    prior_rflags,   \* RFLAGS when without_interrupts was called
    saved_intpt_flag, \* without_interrupts: its local saved_intpt_flag
    log_pc,         \* position of the logging code inside without_interrupts
    logger_lock,    \* the spinlock of LockedLogger: who holds it
    handler,        \* the interrupt handler that logs: where it is
    handler_rflags, \* the RFLAGS image the interrupt pushed
    heap_pages,     \* the pages of the heap init_heap has mapped
    free_lists,     \* heap allocator: per block size, the list of free blocks
    fallback,       \* heap allocator: the holes of the fallback heap, by address
    live,           \* the live allocations: address, size, alignment
    alloc_failed,   \* an allocation returned null
    test_pc,        \* position of the heap test
    test_i,         \* the loop counter of the heap test
    long_lived,     \* the heap test's long-lived Box
    boxed,          \* the heap test's Box x
    fault_pc,       \* position of the stack-overflow run
    rsp,            \* the stack pointer
    tss_ptr,        \* address of the TSS static
    ist_stack,      \* address of the STACK static of the TSS
    below,          \* number of mapped pages right below the kernel stack
    tss,            \* the TSS in memory
    gdt_tss,        \* the TSS descriptor of the GDT
    tr,             \* the task register: base address of the loaded TSS
    idt,            \* the IDT the IDTR points to
    rtc_pc,         \* position of read_rtc
    cmos,           \* the time and status registers of the RTC
    rtc_time        \* the fields read_rtc passes to with_ymd_and_hms

bootvars == <<kernel, stack_addr, hdr, framebuffer, context_switch, boot_info, cpu>>

\* the variables of the loader and of its libraries
loadervars == <<memory_map, next, start_next, allocated, mem, l4, last, fw_map,
                kernel, stack_addr, hdr, framebuffer, context_switch, boot_info, cpu>>

\* the variables of VirtAddr
addrvars == <<addr_arg, addr_result>>

\* the variables of the keyboard task
keyboardvars == <<scancode_queue, kb_waker, kb_woken, kb_poll, kb_held, kb_sent,
                  kb_accepted, kb_yielded>>

vars == <<pc, memory_map, next, start_next, allocated, mem, l4, last, fw_map,
          kernel, stack_addr, hdr, framebuffer, context_switch, boot_info, cpu,
          addr_arg, addr_result,
          scancode_queue, kb_waker, kb_woken, kb_poll, kb_held, kb_sent,
          kb_accepted, kb_yielded,
          tasks, ready, running, STOP, returned, TIMER_FLAG, timer_waker, timer_poll,
          manager, NEXT_ID, sleepers, raised, busy_ticks, timer_logged, observed, done,
          to_type, keys, key_waker, input_buffer, consumed,
          lapic, timer_I, timer_log,
          rflags, prior_rflags, saved_intpt_flag, log_pc, logger_lock, handler,
          handler_rflags,
          heap_pages, free_lists, fallback, live, alloc_failed, test_pc, test_i,
          long_lived, boxed,
          fault_pc, rsp, tss_ptr, ist_stack, below, tss, gdt_tss, tr, idt,
          rtc_pc, cmos, rtc_time>>

-----------------------------------------------------------------------------
(* Bounds of the model *)

MaxRegions == 2
MaxRegionPages == 2
MaxCursor == 2
MaxCalls == 6
MaxDescs == 2
MaxScancodes == 103
MaxTicks == 27
MaxShellTicks == 3
MaxBusyTicks == 3
MaxInterrupts == 101
MaxLive == 2
MaxBelow == 1
MaxMaps == 3
PagingFrames == 8

-----------------------------------------------------------------------------
(* Program constants *)

PAGE_SIZE == 4096
ENTRY_COUNT == 512
PRESENT == 1
WRITABLE == 2

None == <<>>
Some(x) == <<x>>
IsSome(o) == o # None
Unwrap(o) == o[1]

(* u64 address arithmetic on the two-limb representation *)
Addr(pg, off) == <<pg, off>>
AddBytes(a, n) == <<a[1] + ((a[2] + n) \div PAGE_SIZE), (a[2] + n) % PAGE_SIZE>>
AddPages(a, k) == <<a[1] + k, a[2]>>
PageOffset(a) == a[2]

RECURSIVE BitOr(_, _)
BitOr(a, b) ==
    IF a = 0 THEN b
    ELSE IF b = 0 THEN a
    ELSE (IF (a % 2 = 1) \/ (b % 2 = 1) THEN 1 ELSE 0) + 2 * BitOr(a \div 2, b \div 2)

-----------------------------------------------------------------------------
(* Frame allocator: shared_lib/src/frame_allocator.rs *)

\* the loader state of the specifications that do not run efi_main
NoBoot ==
    /\ kernel = Addr(0, 0)
    /\ stack_addr = Addr(0, 0)
    /\ hdr = <<>>
    /\ framebuffer = <<>>
    /\ context_switch = <<>>
    /\ boot_info = <<>>
    /\ cpu = <<>>

\* the loader's state in the specifications of the kernel's components
NoLoader ==
    /\ memory_map = <<>>
    /\ next = 0
    /\ start_next = 0
    /\ allocated = <<>>
    /\ mem = <<>>
    /\ l4 = 0
    /\ last = [op |-> "none"]
    /\ fw_map = <<>>
    /\ NoBoot

NoAddr ==
    /\ addr_arg = <<>>
    /\ addr_result = <<>>

\* the variables of the executor, the timer and the tasks
execvars == <<tasks, ready, running, STOP, returned, TIMER_FLAG, timer_waker, timer_poll,
              manager, NEXT_ID, sleepers, raised, busy_ticks, timer_logged, observed, done,
              to_type, keys, key_waker, input_buffer, consumed>>

\* the variables of the timer interrupt
irqvars == <<lapic, timer_I, timer_log>>

NoIrq ==
    /\ lapic = <<>>
    /\ timer_I = 0
    /\ timer_log = 0

\* the variables of the logger
loggervars == <<rflags, prior_rflags, saved_intpt_flag, log_pc, logger_lock, handler,
                handler_rflags>>

NoLogger ==
    /\ rflags = 0
    /\ prior_rflags = 0
    /\ saved_intpt_flag = FALSE
    /\ log_pc = "none"
    /\ logger_lock = <<>>
    /\ handler = "none"
    /\ handler_rflags = 0

\* the variables of the kernel heap
heapvars == <<heap_pages, free_lists, fallback, live, alloc_failed, test_pc, test_i,
              long_lived, boxed>>

NoHeap ==
    /\ heap_pages = {}
    /\ free_lists = <<>>
    /\ fallback = <<>>
    /\ live = {}
    /\ alloc_failed = FALSE
    /\ test_pc = "none"
    /\ test_i = 0
    /\ long_lived = <<>>
    /\ boxed = <<>>

\* the variables of the real-time clock
rtcvars == <<rtc_pc, cmos, rtc_time>>

NoRtc ==
    /\ rtc_pc = "none"
    /\ cmos = <<>>
    /\ rtc_time = <<>>

\* the variables of the descriptor tables and of the stack-overflow run
faultvars == <<fault_pc, rsp, tss_ptr, ist_stack, below, tss, gdt_tss, tr, idt>>

NoFault ==
    /\ fault_pc = "none"
    /\ rsp = Addr(0, 0)
    /\ tss_ptr = Addr(0, 0)
    /\ ist_stack = Addr(0, 0)
    /\ below = 0
    /\ tss = <<>>
    /\ gdt_tss = <<>>
    /\ tr = <<>>
    /\ idt = <<>>

NoExec ==
    /\ tasks = {}
    /\ ready = <<>>
    /\ running = <<>>
    /\ STOP = FALSE
    /\ returned = FALSE
    /\ TIMER_FLAG = <<>>
    /\ timer_waker = <<>>
    /\ timer_poll = "none"
    /\ manager = <<>>
    /\ NEXT_ID = 0
    /\ sleepers = <<>>
    /\ raised = 0
    /\ busy_ticks = 0
    /\ timer_logged = FALSE
    /\ observed = 0
    /\ done = <<>>
    /\ to_type = <<>>
    /\ keys = <<>>
    /\ key_waker = <<>>
    /\ input_buffer = <<>>
    /\ consumed = <<>>

NoKeyboard ==
    /\ scancode_queue = <<>>
    /\ kb_waker = <<>>
    /\ kb_woken = FALSE
    /\ kb_poll = "none"
    /\ kb_held = <<>>
    /\ kb_sent = 0
    /\ kb_accepted = <<>>
    /\ kb_yielded = <<>>

\* every component but g is in its idle state
Idle(g) ==
    /\ IF g = "loader" THEN TRUE ELSE NoLoader
    /\ IF g = "addr" THEN TRUE ELSE NoAddr
    /\ IF g = "keyboard" THEN TRUE ELSE NoKeyboard
    /\ IF g \in {"exec", "irq"} THEN TRUE ELSE NoExec
    /\ IF g = "irq" THEN TRUE ELSE NoIrq
    /\ IF g = "logger" THEN TRUE ELSE NoLogger
    /\ IF g = "heap" THEN TRUE ELSE NoHeap
    /\ IF g = "fault" THEN TRUE ELSE NoFault
    /\ IF g = "rtc" THEN TRUE ELSE NoRtc

\* a step of component g leaves the variables of the others unchanged
Frame(g) ==
    /\ IF g = "loader" THEN TRUE ELSE UNCHANGED loadervars
    /\ IF g = "addr" THEN TRUE ELSE UNCHANGED addrvars
    /\ IF g = "keyboard" THEN TRUE ELSE UNCHANGED keyboardvars
    /\ IF g = "exec" THEN TRUE ELSE UNCHANGED execvars
    /\ IF g = "irq" THEN TRUE ELSE UNCHANGED irqvars
    /\ IF g = "logger" THEN TRUE ELSE UNCHANGED loggervars
    /\ IF g = "heap" THEN TRUE ELSE UNCHANGED heapvars
    /\ IF g = "fault" THEN TRUE ELSE UNCHANGED faultvars
    /\ IF g = "rtc" THEN TRUE ELSE UNCHANGED rtcvars

MemoryRegion(ty, addr, page_count) == [ty |-> ty, addr |-> addr, page_count |-> page_count]

\* r.addr..(r.addr + 4096 * r.page_count) stepped by 4096
RegionFrames(r) == [k \in 1..r.page_count |-> AddPages(r.addr, k - 1)]

RECURSIVE usable_frames(_)
usable_frames(mm) ==
    IF mm = <<>> THEN <<>>
    ELSE (IF Head(mm).ty = "Free" THEN RegionFrames(Head(mm)) ELSE <<>>)
         \o usable_frames(Tail(mm))

\* A mutant of allocate_frame that forgets to advance the cursor.
allocate_frame_stuck(mm, nxt) ==
    LET uf == usable_frames(mm)
    IN  [frame |-> IF nxt < Len(uf) THEN Some(uf[nxt + 1]) ELSE None,
         next  |-> nxt]

\* A mutant of allocate_frame that starts numbering at the second frame.
allocate_frame_skip(mm, nxt) ==
    LET uf == usable_frames(mm)
    IN  [frame |-> IF nxt + 1 < Len(uf) THEN Some(uf[nxt + 2]) ELSE None,
         next  |-> nxt + 1]

\* frame = usable_frames().nth(next); next += 1
allocate_frame(mm, nxt) ==
    LET uf == usable_frames(mm)
    IN  [frame |-> IF nxt < Len(uf) THEN Some(uf[nxt + 1]) ELSE None,
         next  |-> nxt + 1]

-----------------------------------------------------------------------------
(* Memory maps the allocator is constructed over: disjoint 4 KiB-aligned   *)
(* regions as a firmware map lists them (each region follows the previous  *)
(* one after a gap of 0 or 1 page).                                        *)

RegionShapes ==
    [ty : {"Free", "Reserved"}, gap : {0, 1}, page_count : 0..MaxRegionPages]

RECURSIVE LayOut(_, _)
LayOut(shapes, base) ==
    IF shapes = <<>> THEN <<>>
    ELSE LET s == Head(shapes)
         IN  <<MemoryRegion(s.ty, Addr(base + s.gap, 0), s.page_count)>>
             \o LayOut(Tail(shapes), base + s.gap + s.page_count)

Reverse(s) == [i \in 1..Len(s) |-> s[Len(s) + 1 - i]]

MemoryMaps ==
    UNION { { LayOut(sh, 1), Reverse(LayOut(sh, 1)) } :
            sh \in UNION { [1..n -> RegionShapes] : n \in 1..MaxRegions } }

-----------------------------------------------------------------------------
(* Specification of the frame allocator alone *)

NoOp == [op |-> "none"]

InitFrames ==
    /\ pc = "frames"
    /\ memory_map \in MemoryMaps
    /\ next \in 0..MaxCursor
    /\ start_next = next
    /\ allocated = <<>>
    /\ mem = <<>>
    /\ l4 = 0
    /\ last = NoOp
    /\ fw_map = <<>>
    /\ NoBoot
    /\ Idle("loader")

AllocateFrame ==
    /\ pc = "frames"
    /\ Len(allocated) < MaxCalls
    /\ LET r == allocate_frame(memory_map, next)
       IN  /\ next' = r.next
           /\ allocated' = Append(allocated, r.frame)
    /\ UNCHANGED <<pc, memory_map, start_next, mem, l4, last, fw_map>>
    /\ Frame("loader")
    /\ UNCHANGED bootvars

NextFrames == AllocateFrame

SpecFrames == InitFrames /\ [][NextFrames]_vars

\* The 4 KiB frames of the Free regions, as a set (not via the iterator).
FreeFrames(mm) ==
    UNION { { AddPages(mm[i].addr, k) : k \in 0..(mm[i].page_count - 1) } :
            i \in { j \in DOMAIN mm : mm[j].ty = "Free" } }

Returned(n) == { Unwrap(allocated[i]) : i \in { j \in 1..n : IsSome(allocated[j]) } }

\* C3: any two allocate_frame calls on one allocator that both return a
\* frame return distinct physical addresses.
C3_DistinctFrames ==
    pc = "frames" =>
        \A i, j \in DOMAIN allocated :
            (i < j /\ IsSome(allocated[i]) /\ IsSome(allocated[j]))
                => allocated[i] # allocated[j]

C3_Witness ==
    /\ pc = "frames"
    /\ start_next > 0
    /\ Len(allocated) >= 3
    /\ \A i \in 1..3 : IsSome(allocated[i])

\* C4: from cursor 0, at the first failing call the frames returned so far
\* are exactly the frames of the Free regions, and every later call fails.
C4_ExhaustsFree ==
    (pc = "frames" /\ start_next = 0) =>
        \A i \in DOMAIN allocated :
            allocated[i] = None =>
                /\ Returned(i) = FreeFrames(memory_map)
                /\ \A j \in DOMAIN allocated : j > i => allocated[j] = None

C4_Witness ==
    /\ pc = "frames"
    /\ start_next = 0
    /\ Len(allocated) >= 4
    /\ IsSome(allocated[2])
    /\ allocated[3] = None
    /\ allocated[4] = None
    /\ \E i \in DOMAIN memory_map : memory_map[i].ty = "Reserved" /\ memory_map[i].page_count > 0

-----------------------------------------------------------------------------
(* Page-table engine: shared_lib/src/lib.rs *)

\* A 64-bit entry: the frame number it holds and its low 12 bits.
ZeroEntry == [pg |-> 0, low |-> 0]

\* self.entry = addr | flags.bits()
set_addr(addr, flagbits) == [pg |-> addr[1], low |-> BitOr(addr[2], flagbits)]

\* self.flags().contains(flag), for a single-bit flag
contains(e, flag) == (e.low \div flag) % 2 = 1

\* self.entry & 0x000f_ffff_ffff_f000 (the page limb is below 2^40)
entry_addr(e) == Addr(e.pg, 0)

\* (virt >> 12 >> 9 >> 9 >> 9) as u16 % ENTRY_COUNT, and the three others
get_p4_index(virt) == ((virt[1] \div (512 * 512 * 512)) % 65536) % ENTRY_COUNT
get_p3_index(virt) == ((virt[1] \div (512 * 512)) % 65536) % ENTRY_COUNT
get_p2_index(virt) == ((virt[1] \div 512) % 65536) % ENTRY_COUNT
get_p1_index(virt) == (virt[1] % 65536) % ENTRY_COUNT

(* Physical memory.  A frame is untouched ("raw": it still holds what it   *)
(* held when the loader started), a page table (its 512 entries, the zero  *)
(* ones left out), or data written by map_kernel.                          *)
RawFrame(f) == [kind |-> "raw", frame |-> f]
TableFrame(ent) == [kind |-> "table", ent |-> ent]
EmptyTable == TableFrame(<<>>)

Content(m, f) == IF f \in DOMAIN m THEN m[f] ELSE RawFrame(f)
Store(m, f, c) == [g \in (DOMAIN m) \cup {f} |-> IF g = f THEN c ELSE m[g]]

\* table[index] of the PageTable in frame f
EntryAt(m, f, idx) ==
    LET c == Content(m, f)
    IN  IF c.kind = "table" /\ idx \in DOMAIN c.ent THEN c.ent[idx] ELSE ZeroEntry

\* table[index] = e, for a frame that holds a PageTable
SetEntry(m, f, idx, e) ==
    LET old == Content(m, f).ent
    IN  Store(m, f, TableFrame([i \in (DOMAIN old) \cup {idx} |->
                                    IF i = idx THEN e ELSE old[i]]))

\* FrameAllocator::allocate_page_table: a frame from allocate_frame (panic
\* when there is none), cleared, seen at frame + mapping_offset.
ClearedTable(a, m) ==
    IF a.frame = None
    THEN [st |-> "panic", mem |-> m, next |-> a.next, table |-> 0]
    ELSE [st |-> "ok", mem |-> Store(m, Unwrap(a.frame)[1], EmptyTable),
          next |-> a.next, table |-> Unwrap(a.frame)[1]]

allocate_page_table(mm, m, nxt) == ClearedTable(allocate_frame(mm, nxt), m)

\* page_table_entry.set_addr(new_table, PRESENT | WRITABLE) in table f
LinkTable(a, f, idx) ==
    IF a.st # "ok" THEN a
    ELSE [a EXCEPT !.mem = SetEntry(a.mem, f, idx,
             set_addr(Addr(a.table, 0), BitOr(PRESENT, WRITABLE)))]

\* A mutant of create_next_table that allocates the next table but does not
\* store it in the parent entry.
create_next_table_unlinked(mm, m, nxt, f, idx) ==
    IF contains(EntryAt(m, f, idx), PRESENT)
    THEN [st |-> "ok", mem |-> m, next |-> nxt, table |-> entry_addr(EntryAt(m, f, idx))[1]]
    ELSE allocate_page_table(mm, m, nxt)

create_next_table(mm, m, nxt, f, idx) ==
    IF contains(EntryAt(m, f, idx), PRESENT)
    THEN [st |-> "ok", mem |-> m, next |-> nxt, table |-> entry_addr(EntryAt(m, f, idx))[1]]
    ELSE LinkTable(allocate_page_table(mm, m, nxt), f, idx)

Outcome(st, m, nxt) == [st |-> st, mem |-> m, next |-> nxt]

\* create_next_table(...)? one level down from the table reached so far
Descend(mm, t, idx) ==
    IF t.st # "ok" THEN t
    ELSE create_next_table(mm, t.mem, t.next, t.table, idx)

\* A mutant of the L1 step of map_address_impl that overwrites a present entry.
SetLeaf_overwrite(t, idx, phys) ==
    IF t.st # "ok" THEN Outcome(t.st, t.mem, t.next)
    ELSE Outcome(IF contains(EntryAt(t.mem, t.table, idx), PRESENT) THEN "err" ELSE "ok",
                 SetEntry(t.mem, t.table, idx, set_addr(phys, BitOr(PRESENT, WRITABLE))),
                 t.next)

\* the L1 step of map_address_impl: Err when the entry is present, else
\* l1_entry.set_addr(phys, PRESENT | WRITABLE)
SetLeaf(t, idx, phys) ==
    IF t.st # "ok" THEN Outcome(t.st, t.mem, t.next)
    ELSE IF contains(EntryAt(t.mem, t.table, idx), PRESENT)
    THEN Outcome("err", t.mem, t.next)
    ELSE Outcome("ok",
                 SetEntry(t.mem, t.table, idx, set_addr(phys, BitOr(PRESENT, WRITABLE))),
                 t.next)

map_address_impl(mm, m, nxt, l4f, virt, phys) ==
    SetLeaf(Descend(mm,
                Descend(mm,
                    Descend(mm, [st |-> "ok", mem |-> m, next |-> nxt, table |-> l4f],
                            get_p4_index(virt)),
                    get_p3_index(virt)),
                get_p2_index(virt)),
            get_p1_index(virt), phys)

\* the second half of map_address
MapNextPage(mm, r, l4f, virt, phys) ==
    IF r.st # "ok" THEN r
    ELSE IF virt[2] % PAGE_SIZE = 0 THEN r
    ELSE map_address_impl(mm, r.mem, r.next, l4f,
                          AddBytes(virt, PAGE_SIZE), AddBytes(phys, PAGE_SIZE))

\* map_address: the page of virt and, when virt is not page-aligned, the next
map_address(mm, m, nxt, l4f, virt, phys) ==
    MapNextPage(mm, map_address_impl(mm, m, nxt, l4f, virt, phys), l4f, virt, phys)

\* one level of the walk of get_physical_address: the next table, or None
WalkStep(m, t, idx) ==
    IF t = None THEN None
    ELSE IF ~contains(EntryAt(m, Unwrap(t), idx), PRESENT) THEN None
    ELSE Some(entry_addr(EntryAt(m, Unwrap(t), idx))[1])

FrameAddr(t) == IF t = None THEN None ELSE Some(Addr(Unwrap(t), 0))

get_physical_address(m, l4f, virt) ==
    FrameAddr(WalkStep(m,
                  WalkStep(m,
                      WalkStep(m,
                          WalkStep(m, Some(l4f), get_p4_index(virt)),
                          get_p3_index(virt)),
                      get_p2_index(virt)),
                  get_p1_index(virt)))

-----------------------------------------------------------------------------
(* Specification of the page-table engine: a fresh level-4 table and a run *)
(* of map_address calls over one frame allocator.                          *)

\* Virtual addresses that differ in each of the four table indexes, the
\* first page of the direct map, and an address that is not page-aligned.
PagingVirts ==
    { Addr(0, 0), Addr(1, 0), Addr(512, 0), Addr(512 * 512, 0),
      Addr(512 * 512 * 512, 0), Addr(402653184, 0), Addr(511, 16) }

PagingPhys == { Addr(64, 0), Addr(66, 8) }

PagingMap == <<MemoryRegion("Reserved", Addr(0, 0), 1),
               MemoryRegion("Free", Addr(1, 0), PagingFrames)>>

InitPaging ==
    /\ pc = "paging"
    /\ memory_map = PagingMap
    /\ next = allocate_page_table(PagingMap, <<>>, 0).next
    /\ start_next = 0
    /\ allocated = <<>>
    /\ mem = allocate_page_table(PagingMap, <<>>, 0).mem
    /\ l4 = allocate_page_table(PagingMap, <<>>, 0).table
    /\ last = [op |-> "none", n |-> 0]
    /\ fw_map = <<>>
    /\ NoBoot
    /\ Idle("loader")

L1Present(m, l4f, virt) == IsSome(get_physical_address(m, l4f, virt))

MapResult(r, virt, phys) ==
    /\ mem' = r.mem
    /\ next' = r.next
    /\ pc' = IF r.st = "panic" THEN "panic" ELSE pc
    /\ last' = [op |-> "map", n |-> last.n + 1, virt |-> virt, phys |-> phys,
                st |-> r.st, was_present |-> L1Present(mem, l4, virt),
                before |-> mem, new_tables |-> r.next - next]

MapAddress ==
    /\ pc = "paging"
    /\ last.n < MaxMaps
    /\ \E virt \in PagingVirts, phys \in PagingPhys :
          MapResult(map_address(memory_map, mem, next, l4, virt, phys), virt, phys)
    /\ UNCHANGED <<memory_map, start_next, allocated, l4, fw_map>>
    /\ Frame("loader")
    /\ UNCHANGED bootvars

NextPaging == MapAddress

SpecPaging == InitPaging /\ [][NextPaging]_vars

Aligned(a) == a[2] = 0

\* C2: after map(L4, V, P) returns Ok for a page-aligned V and a 4 KiB-aligned
\* frame P, translate(L4, V) returns Some(P), whatever tables existed before.
C2_MapThenTranslate ==
    (last.op = "map" /\ last.st = "ok" /\ Aligned(last.virt) /\ Aligned(last.phys))
        => get_physical_address(mem, l4, last.virt) = Some(last.phys)

C2_Witness ==
    /\ last.op = "map" /\ last.st = "ok" /\ last.n >= 2
    /\ Aligned(last.virt) /\ Aligned(last.phys)
    /\ last.new_tables = 2

\* C5: map(L4, V, P) on a V whose L1 entry is already present returns the
\* already-mapped error and leaves the page tables and every translation
\* unchanged.
C5_MapExistingFails ==
    (last.op = "map" /\ last.was_present) =>
        /\ last.st = "err"
        /\ mem = last.before
        /\ \A v \in PagingVirts :
              get_physical_address(mem, l4, v) = get_physical_address(last.before, l4, v)
        /\ IsSome(get_physical_address(mem, l4, last.virt))

C5_Witness ==
    /\ last.op = "map" /\ last.was_present /\ last.st = "err"
    /\ get_physical_address(mem, l4, last.virt) # Some(Addr(last.phys[1], 0))

-----------------------------------------------------------------------------
(* Conversion of the firmware memory map: loader/src/main.rs               *)

FirmwareTypes ==
    { "RESERVED", "LOADER_CODE", "LOADER_DATA", "BOOT_SERVICES_CODE",
      "BOOT_SERVICES_DATA", "RUNTIME_SERVICES_CODE", "RUNTIME_SERVICES_DATA",
      "CONVENTIONAL", "UNUSABLE", "ACPI_RECLAIM", "ACPI_NON_VOLATILE", "MMIO",
      "MMIO_PORT_SPACE", "PAL_CODE", "PERSISTENT_MEMORY", "CUSTOM" }

MemoryDescriptor(ty, phys_start, page_count) ==
    [ty |-> ty, phys_start |-> phys_start, page_count |-> page_count]

\* the match of convert_memory_type; "panic" for the arm _ => panic!
convert_memory_type(t) ==
    CASE t \in {"MMIO_PORT_SPACE", "MMIO", "RESERVED", "UNUSABLE"} -> "Reserved"
      [] t \in {"PERSISTENT_MEMORY", "CONVENTIONAL", "LOADER_DATA", "LOADER_CODE",
                "BOOT_SERVICES_CODE", "BOOT_SERVICES_DATA"} -> "Free"
      [] t \in {"ACPI_NON_VOLATILE", "RUNTIME_SERVICES_CODE",
                "RUNTIME_SERVICES_DATA"} -> "Acpi1_3"
      [] t = "ACPI_RECLAIM" -> "AcpiReclaim"
      [] t = "PAL_CODE" -> "Acpi1_4"
      [] OTHER -> "panic"

\* A mutant of ConvertDescriptor without the phys_start == 0 branch.
ConvertDescriptor_nozero(d) ==
    MemoryRegion(convert_memory_type(d.ty), d.phys_start, d.page_count)

\* the body of the loop of init_allocator, for one descriptor
ConvertDescriptor(d) ==
    IF d.phys_start = Addr(0, 0)
    THEN MemoryRegion("Reserved", d.phys_start, d.page_count)
    ELSE MemoryRegion(convert_memory_type(d.ty), d.phys_start, d.page_count)

\* MMAP.entries[0..len) after the loop; next_free_entry_idx = len
ConvertedMap(fw) == [i \in DOMAIN fw |-> ConvertDescriptor(fw[i])]

\* init_allocator: the converted map and FrameAllocator::new(MMAP, 0, 0),
\* or the panic of convert_memory_type
init_allocator(fw) ==
    IF \E i \in DOMAIN fw : ConvertedMap(fw)[i].ty = "panic"
    THEN [st |-> "panic", memory_map |-> <<>>, next |-> 0]
    ELSE [st |-> "ok", memory_map |-> ConvertedMap(fw), next |-> 0]

(* Firmware maps: descriptors of 1 or 2 pages, one after the other, the    *)
(* first of them at physical address 0 or at 0x1000.                       *)
DescriptorShapes == [ty : FirmwareTypes, page_count : {1, 2}]

RECURSIVE LayOutDescriptors(_, _)
LayOutDescriptors(shapes, base) ==
    IF shapes = <<>> THEN <<>>
    ELSE <<MemoryDescriptor(Head(shapes).ty, Addr(base, 0), Head(shapes).page_count)>>
         \o LayOutDescriptors(Tail(shapes), base + Head(shapes).page_count)

InitConvert ==
    /\ pc = "firmware"
    /\ \E n \in 1..MaxDescs : \E sh \in [1..n -> DescriptorShapes] : \E base \in {0, 1} :
          fw_map = LayOutDescriptors(sh, base)
    /\ memory_map = <<>>
    /\ next = 0
    /\ start_next = 0
    /\ allocated = <<>>
    /\ mem = <<>>
    /\ l4 = 0
    /\ last = NoOp
    /\ NoBoot
    /\ Idle("loader")

InitAllocator ==
    /\ pc = "firmware"
    /\ pc' = IF init_allocator(fw_map).st = "ok" THEN "frames" ELSE "panic"
    /\ memory_map' = init_allocator(fw_map).memory_map
    /\ next' = init_allocator(fw_map).next
    /\ start_next' = init_allocator(fw_map).next
    /\ UNCHANGED <<allocated, mem, l4, last, fw_map>>
    /\ Frame("loader")
    /\ UNCHANGED bootvars

NextConvert == InitAllocator \/ AllocateFrame

SpecConvert == InitConvert /\ [][NextConvert]_vars

UsableTypes ==
    { "PERSISTENT_MEMORY", "CONVENTIONAL", "LOADER_DATA", "LOADER_CODE",
      "BOOT_SERVICES_CODE", "BOOT_SERVICES_DATA" }

\* C6: after init_allocator no Free region contains physical address 0, so
\* allocate_frame never returns frame 0, and every usable descriptor that
\* does not start at 0 is a Free region with the same base and page count.
C6_FrameZeroReserved ==
    (pc = "frames" /\ fw_map # <<>>) =>
        /\ Len(memory_map) = Len(fw_map)
        /\ \A i \in DOMAIN memory_map :
              memory_map[i].ty = "Free" =>
                  ~(memory_map[i].addr[1] <= 0
                    /\ 0 < memory_map[i].addr[1] + memory_map[i].page_count)
        /\ \A j \in DOMAIN allocated : allocated[j] # Some(Addr(0, 0))
        /\ \A i \in DOMAIN fw_map :
              (fw_map[i].phys_start # Addr(0, 0) /\ fw_map[i].ty \in UsableTypes)
                  => memory_map[i] =
                        [ty |-> "Free", addr |-> fw_map[i].phys_start,
                         page_count |-> fw_map[i].page_count]

C6_Witness ==
    /\ pc = "frames"
    /\ Len(fw_map) = 2
    /\ fw_map[1] = MemoryDescriptor("CONVENTIONAL", Addr(0, 0), 1)
    /\ fw_map[2].ty = "LOADER_DATA"
    /\ Len(allocated) >= 2
    /\ IsSome(allocated[1])
    /\ allocated[2] = None

-----------------------------------------------------------------------------
(* The loader's boot sequence: efi_main of loader/src/main.rs, from        *)
(* exit_boot_services to the jump into the kernel.                         *)

\* 0x180_0000_0000, the base of the direct map of physical memory
VIRT_MAPPING_OFFSET == Addr(402653184, 0)

align_down(a) == Addr(a[1], 0)
align_down_u64(a) == Addr(a[1], 0)

kernel_max_size == 100 * 4096
KernelPages == 1 + kernel_max_size \div 4096
stack_depth == 20
heap_size_in_pages == 25

(* The memory at exit_boot_services.  The firmware has served the loader's *)
(* allocate_pages calls (heap, kernel image, stack) as LOADER_DATA; `pool` *)
(* conventional frames lie below the kernel image and the map ends with a  *)
(* conventional region of `tail` pages.  The level-4 table, the tables of  *)
(* the direct map and of the kernel's pages and the fresh partial frame    *)
(* take at most 8 frames: with a pool of 8 the allocator reaches the image *)
(* buffer in the last loop of map_kernel at the earliest, after the last   *)
(* read of the program header; with a pool of 32 it never reaches it.      *)
PoolSizes == {8, 32}
TailSizes == {1, 3}

BootShape(ty, page_count) == [ty |-> ty, page_count |-> page_count]

BootMap(pool, tail) ==
    LayOutDescriptors(
        << BootShape("BOOT_SERVICES_CODE", 1),
           BootShape("CONVENTIONAL", pool),
           BootShape("LOADER_DATA", KernelPages),
           BootShape("LOADER_DATA", stack_depth),
           BootShape("LOADER_DATA", heap_size_in_pages),
           BootShape("LOADER_CODE", 2),
           BootShape("BOOT_SERVICES_DATA", 4),
           BootShape("CONVENTIONAL", tail) >>, 0)

KernelRegion(fw) == fw[3]
StackRegion(fw) == fw[4]
HeapRegion(fw) == fw[5]
LoaderCodeRegion(fw) == fw[6]
LoaderStackRegion(fw) == fw[7]

\* last_memory_region.phys_start + (last_memory_region.page_count - 1) * 4096
last_frame_addr(fw) == AddPages(fw[Len(fw)].phys_start, fw[Len(fw)].page_count - 1)

InitBoot ==
    /\ pc = "exit_boot_services"
    /\ \E pool \in PoolSizes : \E tail \in TailSizes : fw_map = BootMap(pool, tail)
    /\ kernel = KernelRegion(fw_map).phys_start
    /\ stack_addr = StackRegion(fw_map).phys_start
    /\ memory_map = <<>>
    /\ next = 0
    /\ start_next = 0
    /\ allocated = <<>>
    /\ mem = <<>>
    /\ l4 = 0
    /\ last = NoOp
    /\ hdr = <<>>
    /\ framebuffer = <<>>
    /\ context_switch = <<>>
    /\ boot_info = <<>>
    /\ cpu = <<>>
    /\ Idle("loader")

\* efi_main: exit_boot_services and init_allocator
ExitBootServices ==
    /\ pc = "exit_boot_services"
    /\ pc' = IF init_allocator(fw_map).st = "ok" THEN "allocate_l4" ELSE "panic"
    /\ memory_map' = init_allocator(fw_map).memory_map
    /\ next' = init_allocator(fw_map).next
    /\ UNCHANGED <<start_next, allocated, mem, l4, last, fw_map>>
    /\ Frame("loader")
    /\ UNCHANGED bootvars

\* the state after a step of efi_main that returns r and continues at `to`
BootResult(r, to, op) ==
    /\ pc' = IF r.st = "ok" THEN to ELSE "panic"
    /\ mem' = r.mem
    /\ next' = r.next
    /\ last' = op

\* efi_main: allocator.allocate_page_table() for the level-4 table
AllocateL4 ==
    /\ pc = "allocate_l4"
    /\ BootResult(allocate_page_table(memory_map, mem, next), "setup_mappings",
                  [op |-> "allocate_l4"])
    /\ l4' = allocate_page_table(memory_map, mem, next).table
    /\ UNCHANGED <<memory_map, start_next, allocated, fw_map>>
    /\ Frame("loader")
    /\ UNCHANGED bootvars

\* for i in lo..hi { map_address(page_table, virt + i * 4096, phys + i * 4096) }
\* with .expect() on every result; the iterations run in order, the first
\* half of the range before the second
RECURSIVE MapRange(_, _, _, _, _, _, _)
MapRange(mm, r, l4f, virt, phys, lo, hi) ==
    IF r.st # "ok" \/ lo >= hi THEN r
    ELSE IF hi - lo = 1
    THEN map_address(mm, r.mem, r.next, l4f, AddPages(virt, lo), AddPages(phys, lo))
    ELSE MapRange(mm,
                  MapRange(mm, r, l4f, virt, phys, lo, (lo + hi) \div 2),
                  l4f, virt, phys, (lo + hi) \div 2, hi)

\* setup_mappings: the loop over 0..(last_frame_addr.0 / 4096)
MapAllMemory(mm, r, l4f, last_frame) ==
    MapRange(mm, r, l4f, VIRT_MAPPING_OFFSET, Addr(0, 0), 0, last_frame[1])

DirectMap ==
    /\ pc = "setup_mappings"
    /\ BootResult(MapAllMemory(memory_map, Outcome("ok", mem, next), l4,
                               last_frame_addr(fw_map)),
                  "map_kernel", [op |-> "direct_map"])
    /\ UNCHANGED <<memory_map, start_next, allocated, l4, fw_map>>
    /\ Frame("loader")
    /\ UNCHANGED bootvars

-----------------------------------------------------------------------------
(* map_kernel *)

\* a frame written by map_kernel: its first n bytes are those of the
\* content src at the time of the copy, the rest is zero
DataFrame(n, src) == [kind |-> "data", n |-> n, src |-> src]
ZeroFrame == DataFrame(0, EmptyTable)

MappedEntry(page, frame) == [page |-> page, frame |-> frame]

\* a LOAD program header
ProgramHeader(offset, virtual_addr, file_size, mem_size) ==
    [offset |-> offset, virtual_addr |-> virtual_addr,
     file_size |-> file_size, mem_size |-> mem_size]

\* the state of map_kernel: physical memory, the allocator's cursor and
\* mapped_frames[0..mapped_frames_counter)
KState(st, m, nxt, mapped) == [st |-> st, mem |-> m, next |-> nxt, mapped |-> mapped]

\* map_address(...).expect(..) followed by the entry of mapped_frames
Recorded(r, mapped, virt, phys) ==
    IF r.st = "ok"
    THEN KState("ok", r.mem, r.next, Append(mapped, MappedEntry(virt, phys)))
    ELSE KState("panic", r.mem, r.next, mapped)

MapAndRecord(mm, k, l4f, virt, phys) ==
    IF k.st # "ok" THEN k
    ELSE Recorded(map_address(mm, k.mem, k.next, l4f, virt, phys), k.mapped, virt, phys)

\* the loop over the pages of the file content
RECURSIVE MapFilePages(_, _, _, _, _, _, _)
MapFilePages(mm, k, l4f, virt, phys, i, n) ==
    IF k.st # "ok" \/ i >= n THEN k
    ELSE MapFilePages(mm, MapAndRecord(mm, k, l4f, AddPages(virt, i), AddPages(phys, i)),
                      l4f, virt, phys, i + 1, n)

\* the branches on header.file_size() != 0
MapFile(mm, k, l4f, h, kb) ==
    IF h.file_size # 0
    THEN MapFilePages(mm, k, l4f, align_down(h.virtual_addr),
                      align_down_u64(AddBytes(kb, h.offset)), 0,
                      1 + (h.file_size - 1 + h.virtual_addr[2]) \div 4096)
    ELSE MapAndRecord(mm, k, l4f, align_down(h.virtual_addr),
                      align_down_u64(AddBytes(kb, h.offset)))

\* remap_address: the L1 entry of virt, which is present, gets the frame and
\* keeps its flags; Err when virt is not mapped
RemapLeaf(m, t, idx, frame) ==
    IF t = None THEN Outcome("err", m, 0)
    ELSE IF ~contains(EntryAt(m, Unwrap(t), idx), PRESENT) THEN Outcome("err", m, 0)
    ELSE Outcome("ok",
                 SetEntry(m, Unwrap(t), idx,
                          [pg |-> frame[1], low |-> EntryAt(m, Unwrap(t), idx).low]),
                 0)

remap_address(m, l4f, virt, frame) ==
    RemapLeaf(m,
              WalkStep(m,
                  WalkStep(m,
                      WalkStep(m, Some(l4f), get_p4_index(virt)),
                      get_p3_index(virt)),
                  get_p2_index(virt)),
              get_p1_index(virt), frame)

\* allocator.allocate_frame().expect("Failed to allocate new frame")
TakeFrame(k, a) ==
    IF a.frame = None
    THEN [st |-> "panic", mem |-> k.mem, next |-> a.next, mapped |-> k.mapped,
          frame |-> Addr(0, 0)]
    ELSE [st |-> "ok", mem |-> k.mem, next |-> a.next, mapped |-> k.mapped,
          frame |-> Unwrap(a.frame)]

Remapped(k, r) ==
    IF r.st = "ok" THEN [k EXCEPT !.mem = r.mem] ELSE [k EXCEPT !.st = "panic"]

\* the loop over mapped_frames that remaps the pages of frame_to_copy
RECURSIVE RemapMatching(_, _, _, _)
RemapMatching(k, l4f, frame_to_copy, i) ==
    IF k.st # "ok" \/ i > Len(k.mapped) THEN k
    ELSE IF k.mapped[i].frame # frame_to_copy
    THEN RemapMatching(k, l4f, frame_to_copy, i + 1)
    ELSE RemapMatching(Remapped(k, remap_address(k.mem, l4f, k.mapped[i].page, k.frame)),
                       l4f, frame_to_copy, i + 1)

\* A mutant of CopyAndZero that zeroes the whole fresh frame.
CopyAndZero_all(k, frame_to_copy, n) ==
    IF k.st # "ok" THEN KState(k.st, k.mem, k.next, k.mapped)
    ELSE KState("ok", Store(k.mem, k.frame[1], DataFrame(0, EmptyTable)), k.next, k.mapped)

\* core::ptr::copy of the data bytes and write_bytes of the zeroes
CopyAndZero(k, frame_to_copy, n) ==
    IF k.st # "ok" THEN KState(k.st, k.mem, k.next, k.mapped)
    ELSE KState("ok",
                Store(k.mem, k.frame[1], DataFrame(n, Content(k.mem, frame_to_copy[1]))),
                k.next, k.mapped)

\* the branch on data_bytes_before_zero != 0
PartialFrame(mm, k, l4f, h, kb) ==
    IF k.st # "ok" THEN k
    ELSE IF AddBytes(h.virtual_addr, h.file_size)[2] = 0 THEN k
    ELSE CopyAndZero(
            RemapMatching(TakeFrame(k, allocate_frame(mm, k.next)), l4f,
                          align_down_u64(AddBytes(kb, h.offset + h.file_size)), 1),
            align_down_u64(AddBytes(kb, h.offset + h.file_size)),
            AddBytes(h.virtual_addr, h.file_size)[2])

\* map_address(page_table, virt_ptr, frame, allocator).expect(..) and
\* write_bytes(frame, 0, 4096)
MappedZero(k, r) ==
    IF r.st = "ok"
    THEN KState("ok", Store(r.mem, k.frame[1], ZeroFrame), r.next, k.mapped)
    ELSE KState("panic", r.mem, r.next, k.mapped)

MapZeroFrame(mm, k, l4f, virt) ==
    IF k.st # "ok" THEN KState(k.st, k.mem, k.next, k.mapped)
    ELSE MappedZero(k, map_address(mm, k.mem, k.next, l4f, virt, k.frame))

\* the loop over 0..(1 + bytes_to_allocate / 4096)
RECURSIVE ZeroFrames(_, _, _, _, _, _)
ZeroFrames(mm, k, l4f, virt, i, n) ==
    IF k.st # "ok" \/ i >= n THEN k
    ELSE ZeroFrames(mm,
                    MapZeroFrame(mm, TakeFrame(k, allocate_frame(mm, k.next)), l4f,
                                 AddPages(virt, i)),
                    l4f, virt, i + 1, n)

\* data_bytes_before_zero after the branch: 4096 when zero_start is aligned
DataBytesBeforeZero(h) ==
    IF AddBytes(h.virtual_addr, h.file_size)[2] # 0
    THEN AddBytes(h.virtual_addr, h.file_size)[2]
    ELSE 4096

\* the branch on mem_size - file_size > 4096 - data_bytes_before_zero
RestOfBss(mm, k, l4f, h) ==
    IF k.st # "ok" THEN k
    ELSE IF h.mem_size - h.file_size > 4096 - DataBytesBeforeZero(h)
    THEN ZeroFrames(mm, k, l4f,
                    AddBytes(AddBytes(h.virtual_addr, h.file_size),
                             4096 - DataBytesBeforeZero(h)),
                    0,
                    1 + (h.mem_size - h.file_size - (4096 - DataBytesBeforeZero(h)))
                            \div 4096)
    ELSE k

\* the branch on header.mem_size() > header.file_size()
MapBss(mm, k, l4f, h, kb) ==
    IF h.mem_size > h.file_size
    THEN RestOfBss(mm, PartialFrame(mm, k, l4f, h, kb), l4f, h)
    ELSE k

\* map_kernel for an ELF file with the one LOAD header h, read to kb
map_kernel(mm, m, nxt, l4f, h, kb) ==
    MapBss(mm, MapFile(mm, KState("ok", m, nxt, <<>>), l4f, h, kb), l4f, h, kb)

(* The LOAD headers of the modelled kernels.  The segment is linked at     *)
(* 0x1_0000_0000 plus its offset in the file, so that the virtual address  *)
(* and the address in the image buffer are congruent modulo 4096.          *)
KernelVirtPage == 1048576
HeaderOffsets == {0, 2048, 4094}
FileSizes == {0, 2048, 4099, 6144}
BssSizes == {0, 2048, 4093, 4096, 6144}

LoadHeaders ==
    { ProgramHeader(o, Addr(KernelVirtPage, o), f, f + b) :
        o \in HeaderOffsets, f \in FileSizes, b \in BssSizes }

MapKernel ==
    /\ pc = "map_kernel"
    /\ \E h \in LoadHeaders :
          /\ hdr' = h
          /\ BootResult(map_kernel(memory_map, mem, next, l4, h, kernel),
                        "map_framebuffer",
                        [op |-> "map_kernel",
                         mapped |-> map_kernel(memory_map, mem, next, l4, h, kernel).mapped])
    /\ UNCHANGED <<memory_map, start_next, allocated, l4, fw_map>>
    /\ Frame("loader")
    /\ UNCHANGED <<kernel, stack_addr, framebuffer, context_switch, boot_info, cpu>>

-----------------------------------------------------------------------------
(* map_framebuffer, the page of context_switch, create_stack, map_bootinfo *)

FrameBufferInfo(addr, size) == [addr |-> addr, size |-> size]

\* the loop over 0..pages_needed_for_fb, pages_needed_for_fb = size / 4096
map_framebuffer(mm, r, l4f, fb) ==
    MapRange(mm, r, l4f,
             Addr(fb.addr[1] + VIRT_MAPPING_OFFSET[1], fb.addr[2]), fb.addr,
             0, fb.size \div 4096)

\* a linear framebuffer above the RAM of the machine
FramebufferPage == 524288
Framebuffers ==
    { FrameBufferInfo(Addr(FramebufferPage, 0), 8192),
      FrameBufferInfo(Addr(FramebufferPage, 0), 8193),
      FrameBufferInfo(Addr(FramebufferPage, 16), 8192) }

MapFramebuffer ==
    /\ pc = "map_framebuffer"
    /\ \E fb \in Framebuffers :
          /\ framebuffer' = fb
          /\ BootResult(map_framebuffer(memory_map, Outcome("ok", mem, next), l4, fb),
                        "map_context_switch", [op |-> "map_framebuffer"])
    /\ UNCHANGED <<memory_map, start_next, allocated, l4, fw_map>>
    /\ Frame("loader")
    /\ UNCHANGED <<kernel, stack_addr, hdr, context_switch, boot_info, cpu>>

(* context_switch: the address of the function in the loader's code and    *)
(* the number of bytes of compiled code that precede its asm! block, whose *)
(* four instructions are mov cr3, mov rsp, push 0 and jmp.                 *)
InstructionLengths == <<3, 3, 2, 2>>

RECURSIVE BytesBefore(_)
BytesBefore(i) == IF i <= 1 THEN 0 ELSE BytesBefore(i - 1) + InstructionLengths[i - 1]

ContextSwitchPlacements(fw) ==
    { [ptr |-> AddBytes(LoaderCodeRegion(fw).phys_start, off), asm |-> a] :
        off \in {0, 4080}, a \in {0, 8} }

\* address of the first byte of the i-th instruction of the asm! block
InstructionStart(c, i) == AddBytes(c.ptr, c.asm + BytesBefore(i))
InstructionEnd(c, i) == AddBytes(InstructionStart(c, i), InstructionLengths[i] - 1)

\* setup_mappings: map_address(align_down(ctx_switch_ptr), align_down_u64(ctx_switch_ptr))
MapContextSwitch ==
    /\ pc = "map_context_switch"
    /\ \E c \in ContextSwitchPlacements(fw_map) :
          /\ context_switch' = c
          /\ BootResult(map_address(memory_map, mem, next, l4,
                                    align_down(c.ptr), align_down_u64(c.ptr)),
                        "create_stack", [op |-> "map_context_switch"])
    /\ UNCHANGED <<memory_map, start_next, allocated, l4, fw_map>>
    /\ Frame("loader")
    /\ UNCHANGED <<kernel, stack_addr, hdr, framebuffer, boot_info, cpu>>

\* create_stack: the loop over 0..stack_depth
create_stack(mm, r, l4f, stack, depth) == MapRange(mm, r, l4f, stack, stack, 0, depth)

\* efi_main: framebuffer.addr += VIRT_MAPPING_OFFSET and create_stack
CreateStack ==
    /\ pc = "create_stack"
    /\ BootResult(create_stack(memory_map, Outcome("ok", mem, next), l4,
                               stack_addr, stack_depth),
                  "map_bootinfo", [op |-> "create_stack"])
    /\ framebuffer' = [framebuffer EXCEPT
                          !.addr = Addr(framebuffer.addr[1] + VIRT_MAPPING_OFFSET[1],
                                        framebuffer.addr[2])]
    /\ UNCHANGED <<memory_map, start_next, allocated, l4, fw_map>>
    /\ Frame("loader")
    /\ UNCHANGED <<kernel, stack_addr, hdr, context_switch, boot_info, cpu>>

(* BootInfo { fb_info, rsdp_addr, memory_map, memory_map_next_free_frame }: *)
(* the entries of the memory map follow the framebuffer descriptor and the *)
(* RSDP address.                                                           *)
MAX_MEMORY_MAP_SIZE == 256
MemoryRegionSize == 24
MEMORY_MAP_PAGES == 1 + (MemoryRegionSize * MAX_MEMORY_MAP_SIZE) \div 4096
EntriesOffset == 56
BootInfoSize == EntriesOffset + MemoryRegionSize * MAX_MEMORY_MAP_SIZE + 16

\* map_bootinfo: the page of boot_info_ptr, then the loop over 0..=MEMORY_MAP_PAGES
map_bootinfo(mm, r, l4f, ptr) ==
    MapRange(mm,
             map_address(mm, r.mem, r.next, l4f, align_down(ptr), align_down_u64(ptr)),
             l4f,
             align_down_u64(AddBytes(ptr, EntriesOffset)),
             align_down_u64(AddBytes(ptr, EntriesOffset)),
             0, MEMORY_MAP_PAGES + 1)

\* BootInfo is a local of efi_main, on the stack the firmware gave the loader
BootInfoPlacements(fw) ==
    { AddBytes(LoaderStackRegion(fw).phys_start, off) : off \in {0, 2048, 4048} }

\* efi_main: map_bootinfo and boot_info.memory_map_next_free_frame = allocator.next
MapBootInfo ==
    /\ pc = "map_bootinfo"
    /\ \E b \in BootInfoPlacements(fw_map) :
          /\ boot_info' =
                [ptr |-> b,
                 memory_map |-> memory_map,
                 memory_map_next_free_frame |->
                     map_bootinfo(memory_map, Outcome("ok", mem, next), l4, b).next]
          /\ BootResult(map_bootinfo(memory_map, Outcome("ok", mem, next), l4, b),
                        "context_switch", [op |-> "map_bootinfo"])
    /\ UNCHANGED <<memory_map, start_next, allocated, l4, fw_map>>
    /\ Frame("loader")
    /\ UNCHANGED <<kernel, stack_addr, hdr, framebuffer, context_switch, cpu>>

\* the page of address a is mapped to itself in the tables of cr3
IdentityMapped(m, cr3, a) ==
    get_physical_address(m, cr3, align_down(a)) = Some(align_down(a))

\* every byte of the i-th instruction lies in an identity-mapped page
Fetchable(m, cr3, c, i) ==
    /\ IdentityMapped(m, cr3, InstructionStart(c, i))
    /\ IdentityMapped(m, cr3, InstructionEnd(c, i))

\* stack_top, the value create_stack returned
stack_top(stack, depth) == AddPages(stack, depth - 1)

\* context_switch: mov cr3, page_table
LoadCr3 ==
    /\ pc = "context_switch"
    /\ pc' = "handoff"
    /\ cpu' = [cr3 |-> l4, rip |-> 2]
    /\ UNCHANGED <<memory_map, next, start_next, allocated, mem, l4, last, fw_map>>
    /\ Frame("loader")
    /\ UNCHANGED <<kernel, stack_addr, hdr, framebuffer, context_switch, boot_info>>

\* context_switch: mov rsp, stack_top; push 0; jmp entry_point, each fetched
\* through the tables of cr3; push 0 writes the 8 bytes below stack_top
ExecuteNext ==
    /\ pc = "handoff"
    /\ pc' = IF ~Fetchable(mem, cpu.cr3, context_switch, cpu.rip) THEN "page_fault"
             ELSE IF cpu.rip = 3
                     /\ get_physical_address(mem, cpu.cr3,
                            align_down(AddBytes(AddPages(stack_top(stack_addr, stack_depth), -1),
                                                PAGE_SIZE - 8)))
                        = None
             THEN "page_fault"
             ELSE IF cpu.rip = Len(InstructionLengths) THEN "kernel"
             ELSE "handoff"
    /\ cpu' = IF Fetchable(mem, cpu.cr3, context_switch, cpu.rip)
                 /\ cpu.rip < Len(InstructionLengths)
              THEN [cpu EXCEPT !.rip = cpu.rip + 1]
              ELSE cpu
    /\ UNCHANGED <<memory_map, next, start_next, allocated, mem, l4, last, fw_map>>
    /\ Frame("loader")
    /\ UNCHANGED <<kernel, stack_addr, hdr, framebuffer, context_switch, boot_info>>

\* A mutant of FrameAllocator_new that starts at the first frame.
FrameAllocator_new_first(mm, next_free_frame) == [memory_map |-> mm, next |-> 0]

\* FrameAllocator::new(memory_map, mapping_offset, next_free_frame)
FrameAllocator_new(mm, next_free_frame) == [memory_map |-> mm, next |-> next_free_frame]

\* the kernel's main: FrameAllocator::new(&boot_info.memory_map,
\* VIRT_MAPPING_OFFSET, boot_info.memory_map_next_free_frame)
KernelMain ==
    /\ pc = "kernel"
    /\ pc' = "kernel_main"
    /\ start_next' = FrameAllocator_new(boot_info.memory_map,
                                        boot_info.memory_map_next_free_frame).next
    /\ allocated' = <<>>
    /\ UNCHANGED <<memory_map, next, mem, l4, last, fw_map>>
    /\ Frame("loader")
    /\ UNCHANGED bootvars

\* an allocate_frame call of the kernel's allocator, whose cursor is the one
\* it was constructed with advanced by the calls so far
KernelAllocateFrame ==
    /\ pc = "kernel_main"
    /\ Len(allocated) < MaxCalls
    /\ allocated' = Append(allocated,
                           allocate_frame(boot_info.memory_map,
                                          start_next + Len(allocated)).frame)
    /\ UNCHANGED <<pc, memory_map, next, start_next, mem, l4, last, fw_map>>
    /\ Frame("loader")
    /\ UNCHANGED bootvars

NextBoot ==
    \/ ExitBootServices
    \/ AllocateL4
    \/ DirectMap
    \/ MapKernel
    \/ MapFramebuffer
    \/ MapContextSwitch
    \/ CreateStack
    \/ MapBootInfo
    \/ LoadCr3
    \/ ExecuteNext
    \/ KernelMain
    \/ KernelAllocateFrame

SpecBoot == InitBoot /\ [][NextBoot]_vars

-----------------------------------------------------------------------------
(* Claims about the boot sequence *)

(* The byte at offset off of a frame.  What a raw frame holds is not       *)
(* known: its bytes are the symbols <<"raw", frame, off>>.                 *)
ZeroByte == <<"zero", 0, 0>>
RawByte(f, off) == <<"raw", f, off>>

RECURSIVE ByteAt(_, _)
ByteAt(c, off) ==
    CASE c.kind = "raw" -> RawByte(c.frame, off)
      [] c.kind = "table" ->
            IF (off \div 8) \in DOMAIN c.ent /\ c.ent[off \div 8] # ZeroEntry
            THEN <<"entry", c.ent[off \div 8].pg, c.ent[off \div 8].low>>
            ELSE ZeroByte
      [] c.kind = "data" -> IF off < c.n THEN ByteAt(c.src, off) ELSE ZeroByte
      [] OTHER -> <<"fault", 0, 0>>

\* the frame behind a translation, "unmapped" for None
Translated(m, o) == IF o = None THEN [kind |-> "unmapped"] ELSE Content(m, Unwrap(o)[1])

\* what the virtual page vpage shows through the tables of l4f
VirtPage(m, l4f, vpage) == Translated(m, get_physical_address(m, l4f, Addr(vpage, 0)))

\* the byte of the image buffer at image offset n, as it was read from the file
ImageByte(kb, n) == RawByte(AddBytes(kb, n)[1], AddBytes(kb, n)[2])

\* the bytes of the j-th page of the segment of h read as C1 says: the image
\* content below file_size, zero from file_size up to mem_size
SegmentPageHolds(c, j, h, kb) ==
    \A off \in 0..(PAGE_SIZE - 1) :
        (j * PAGE_SIZE + off >= h.virtual_addr[2]
         /\ j * PAGE_SIZE + off - h.virtual_addr[2] < h.mem_size)
            => ByteAt(c, off) =
                  IF j * PAGE_SIZE + off - h.virtual_addr[2] < h.file_size
                  THEN ImageByte(kb, h.offset + j * PAGE_SIZE + off - h.virtual_addr[2])
                  ELSE ZeroByte

ImageFrames(kb) == { kb[1] + i : i \in 0..(KernelPages - 1) }

\* C1: after map_kernel has processed a LOAD header with mem_size > file_size
\* (virtual address and image address congruent modulo 4096), the bytes of
\* the segment below file_size read as the image content, the bytes from
\* file_size to mem_size are mapped and read 0, and no frame of the image
\* buffer has been modified.
C1_SegmentContent ==
    (pc = "map_framebuffer" /\ hdr.mem_size > hdr.file_size) =>
        /\ \A j \in 0..((hdr.virtual_addr[2] + hdr.mem_size - 1) \div PAGE_SIZE) :
              SegmentPageHolds(VirtPage(mem, l4, hdr.virtual_addr[1] + j), j, hdr, kernel)
        /\ \A f \in ImageFrames(kernel) : Content(mem, f) = RawFrame(f)

\* C7: after setup_mappings every frame from 0 up to and including the last
\* frame of the memory map is mapped at its address + VIRT_MAPPING_OFFSET.
C7_DirectMapComplete ==
    pc = "create_stack" =>
        \A p \in 0..last_frame_addr(fw_map)[1] :
            get_physical_address(mem, l4, AddPages(VIRT_MAPPING_OFFSET, p))
                = Some(Addr(p, 0))

\* C8: for every placement of BootInfo, map_bootinfo does not fail and every
\* page that holds a byte of BootInfo is identity-mapped at the CR3 load.
C8_BootInfoMapped ==
    last.op = "map_bootinfo" =>
        /\ pc # "panic"
        /\ \A p \in boot_info.ptr[1]..AddBytes(boot_info.ptr, BootInfoSize - 1)[1] :
              IdentityMapped(mem, l4, Addr(p, 0))

\* C9: after the CR3 load every instruction of context_switch up to the jump
\* lies in identity-mapped pages, wherever context_switch is placed.
C9_HandoffIdentityMapped ==
    pc = "handoff" =>
        \A i \in 2..Len(InstructionLengths) : Fetchable(mem, cpu.cr3, context_switch, i)

\* C10: after map_framebuffer every byte of [addr, addr + size) is mapped at
\* addr + VIRT_MAPPING_OFFSET, i.e. every page of the range is.
C10_FramebufferMapped ==
    pc = "map_context_switch" =>
        \A p \in framebuffer.addr[1]..AddBytes(framebuffer.addr, framebuffer.size - 1)[1] :
            get_physical_address(mem, l4, Addr(p + VIRT_MAPPING_OFFSET[1], 0))
                = Some(Addr(p, 0))

-----------------------------------------------------------------------------
(* Claims about map_kernel for single LOAD headers *)

\* the header of the scenario: offset 0, virt_addr 0x1_0000_0000,
\* file_size 0x1003, mem_size 0x2000
ScenarioHeader == ProgramHeader(0, Addr(KernelVirtPage, 0), 4099, 8192)

\* the frame behind the virtual page vpage
FrameOf(m, l4f, vpage) == Unwrap(get_physical_address(m, l4f, Addr(vpage, 0)))[1]

\* the frames behind the pages of the segment of h, and the frames of mapped_frames
SegmentFrames(m, l4f, h) ==
    { FrameOf(m, l4f, h.virtual_addr[1] + j) :
        j \in { i \in 0..((h.virtual_addr[2] + h.mem_size - 1) \div PAGE_SIZE) :
                  get_physical_address(m, l4f, Addr(h.virtual_addr[1] + i, 0)) # None } }
RecordedFrames(mapped) == { mapped[i].frame[1] : i \in 1..Len(mapped) }

-----------------------------------------------------------------------------
(* Claims about the pages map_kernel maps for the zeroed tail of a segment *)

\* the pages recorded in mapped_frames: those mapped for the file content
FilePages(mapped) == { mapped[i].page[1] : i \in 1..Len(mapped) }

\* the page of the first page boundary at or after Z = V + file_size, and
\* the page that contains V + mem_size - 1
BssFirstPage(h) ==
    h.virtual_addr[1] + (h.virtual_addr[2] + h.file_size + PAGE_SIZE - 1) \div PAGE_SIZE
BssLastPage(h) ==
    h.virtual_addr[1] + (h.virtual_addr[2] + h.mem_size - 1) \div PAGE_SIZE

\* the pages from the segment's first page to two pages past its end that
\* are mapped without being recorded for the file content
AdditionalPages(m, l4f, h, mapped) ==
    { p \in h.virtual_addr[1]..(BssLastPage(h) + 2) :
        /\ get_physical_address(m, l4f, Addr(p, 0)) # None
        /\ p \notin FilePages(mapped) }

(* C27: for a LOAD header with mem_size > file_size map_kernel succeeds,   *)
(* the additional pages it maps are exactly those from the first page      *)
(* boundary at or after V + file_size up to the page that contains         *)
(* V + mem_size - 1, every one of them reads zero, and none of them is a   *)
(* page mapped for the file content.                                       *)
C27_BssPages ==
    (last.op = "map_kernel" /\ hdr.mem_size > hdr.file_size) =>
        /\ pc = "map_framebuffer"
        /\ AdditionalPages(mem, l4, hdr, last.mapped)
              = { p \in BssFirstPage(hdr)..BssLastPage(hdr) : p \notin FilePages(last.mapped) }
        /\ \A p \in AdditionalPages(mem, l4, hdr, last.mapped) :
              VirtPage(mem, l4, p) = ZeroFrame

-----------------------------------------------------------------------------
(* Claims about the frames of the loader's and of the kernel's allocator *)

\* the frames the loader's allocate_frame has returned: those numbered below
\* its cursor
LoaderFrames ==
    { usable_frames(memory_map)[i] :
        i \in 1..(IF next < Len(usable_frames(memory_map)) THEN next
                  ELSE Len(usable_frames(memory_map))) }

(* C29: a kernel FrameAllocator constructed from BootInfo never returns a  *)
(* frame the loader's allocator returned before the jump: the cursor in    *)
(* BootInfo is the loader's cursor after its last allocation, the memory   *)
(* map in BootInfo is the loader's, and no allocation modifies the map.    *)
C29_KernelFramesFresh ==
    /\ [](pc = "kernel_main" =>
            /\ boot_info.memory_map_next_free_frame = next
            /\ usable_frames(boot_info.memory_map) = usable_frames(memory_map)
            /\ \A i \in DOMAIN allocated :
                  IsSome(allocated[i]) => Unwrap(allocated[i]) \notin LoaderFrames)
    /\ [][pc \notin {"exit_boot_services", "frames", "convert"} => memory_map' = memory_map]_vars
    /\ [][pc = "kernel_main" => boot_info' = boot_info]_vars

\* the kernel's allocator has returned frames after the loader's
C29_Witness ==
    /\ pc = "kernel_main"
    /\ next > 0
    /\ Len(allocated) >= 2
    /\ IsSome(allocated[1])
    /\ IsSome(allocated[2])

\* the frames of a region of the firmware's map
FramesOf(d) == { d.phys_start[1] + i : i \in 0..(d.page_count - 1) }

(* C30: no frame returned by the loader's allocate_frame lies in the       *)
(* kernel image buffer, in the kernel stack pages or in the loader heap.   *)
C30_LoaderFramesFree ==
    pc \notin {"exit_boot_services", "panic"} =>
        \A f \in LoaderFrames :
            f[1] \notin FramesOf(KernelRegion(fw_map)) \cup FramesOf(StackRegion(fw_map))
                            \cup FramesOf(HeapRegion(fw_map))

-----------------------------------------------------------------------------
(* VirtAddr: shared_lib/src/addr.rs and src/addr.rs.  A u64 is the tuple   *)
(* <<w3, w2, w1, w0>> of its four 16-bit words, w3 holding bits 48..63 and *)
(* the top bit of w2 being bit 47.                                         *)

RECURSIVE BitAnd(_, _)
BitAnd(a, b) ==
    IF a = 0 \/ b = 0 THEN 0
    ELSE (a % 2) * (b % 2) + 2 * BitAnd(a \div 2, b \div 2)

U64(w3, w2, w1, w0) == <<w3, w2, w1, w0>>
And64(a, b) == [i \in 1..4 |-> BitAnd(a[i], b[i])]

Ok(v) == [ok |-> TRUE, addr |-> v]
Err == [ok |-> FALSE]

\* ((addr << 16) as i64 >> 16) as u64: VirtAddr::new of shared_lib and
\* VirtAddr::new_truncate of the kernel
sign_extend(a) == U64(IF a[2] >= 32768 THEN 65535 ELSE 0, a[2], a[3], a[4])

\* A mutant of new_checked that returns the address unchanged where the
\* code sign-extends it.
new_checked_noextend(a) ==
    CASE And64(a, U64(65535, 32768, 0, 0)) = U64(0, 0, 0, 0) -> Ok(a)
      [] And64(a, U64(65535, 32768, 0, 0)) = U64(65535, 32768, 0, 0) -> Ok(a)
      [] And64(a, U64(65535, 32768, 0, 0)) = U64(0, 32768, 0, 0) -> Ok(a)
      [] OTHER -> Err

\* shared_lib VirtAddr::new_checked: match addr & 0xffff_8000_0000_0000
new_checked(a) ==
    CASE And64(a, U64(65535, 32768, 0, 0)) = U64(0, 0, 0, 0) -> Ok(a)
      [] And64(a, U64(65535, 32768, 0, 0)) = U64(65535, 32768, 0, 0) -> Ok(a)
      [] And64(a, U64(65535, 32768, 0, 0)) = U64(0, 32768, 0, 0) -> Ok(sign_extend(a))
      [] OTHER -> Err

\* kernel VirtAddr::try_new: match addr & 0xffff_8000_0000_0000 with the
\* arms 0 | 0x1ffff, 1 and _
try_new(a) ==
    CASE And64(a, U64(65535, 32768, 0, 0)) = U64(0, 0, 0, 0) -> Ok(a)
      [] And64(a, U64(65535, 32768, 0, 0)) = U64(0, 0, 1, 65535) -> Ok(a)
      [] And64(a, U64(65535, 32768, 0, 0)) = U64(0, 0, 0, 1) -> Ok(sign_extend(a))
      [] OTHER -> Err

\* kernel VirtAddr::new: try_new(addr).expect(..)
virt_addr_new(a) == IF try_new(a).ok THEN try_new(a) ELSE [ok |-> FALSE, panic |-> TRUE]

\* the values of the words of the arguments: 0x1020, 0x7fff, 0x8000, 0xfffe,
\* 0xffff in the top word, 0x000f, 0x7fff, 0x8000, 0x800f, 0xffff below it
TopWords == {0, 1, 4128, 32767, 32768, 65534, 65535}
Bit47Words == {0, 15, 32767, 32768, 32783, 65535}
LowWords == {0, 2, 35, 546}

InitAddr ==
    /\ pc = "addr"
    /\ addr_arg \in { U64(w3, w2, w1, w0) :
                        w3 \in TopWords, w2 \in Bit47Words, w1 \in {0, 1792},
                        w0 \in LowWords }
    /\ addr_result = <<>>
    /\ Idle("addr")

Returned64(op, res) ==
    /\ pc = "addr"
    /\ pc' = "addr_done"
    /\ addr_result' = [op |-> op, res |-> res]
    /\ UNCHANGED addr_arg
    /\ Frame("addr")

NewChecked == Returned64("new_checked", new_checked(addr_arg))
TryNew == Returned64("try_new", try_new(addr_arg))
VirtAddrNew == Returned64("new", virt_addr_new(addr_arg))

NextAddr == NewChecked \/ TryNew \/ VirtAddrNew

SpecAddr == InitAddr /\ [][NextAddr]_vars

\* bit 47 of a, and the canonical address with the low 48 bits of a
Bit47(a) == (a[2] \div 32768) % 2
Canonical(a) == U64(IF Bit47(a) = 1 THEN 65535 ELSE 0, a[2], a[3], a[4])

\* C11 as stated: new_checked succeeds iff bits 48..63 are all 0, or all 1,
\* or the sign extension of bit 47, and then returns the canonical address
\* with the same low 48 bits.
C11_AsStated ==
    (pc = "addr_done" /\ addr_result.op = "new_checked") =>
        /\ addr_result.res.ok <=>
              (addr_arg[1] = 0 \/ addr_arg[1] = 65535
               \/ addr_arg[1] = Canonical(addr_arg)[1])
        /\ addr_result.res.ok => addr_result.res.addr = Canonical(addr_arg)

\* C11 amended: new_checked succeeds iff bits 48..63 are all 0 or are copies
\* of bit 47 (all 1 only with bit 47 set); on success the result is the
\* canonical address with the same low 48 bits; 0x0000_8000_0700_0000 gives
\* 0xffff_8000_0700_0000 and 0x1020_0000_0000_0002 fails.
C11_NewChecked ==
    (pc = "addr_done" /\ addr_result.op = "new_checked") =>
        /\ addr_result.res.ok <=>
              (addr_arg[1] = 0 \/ (addr_arg[1] = 65535 /\ Bit47(addr_arg) = 1))
        /\ addr_result.res.ok => addr_result.res.addr = Canonical(addr_arg)
        /\ addr_arg = U64(0, 32768, 1792, 0)
              => addr_result.res = Ok(U64(65535, 32768, 1792, 0))
        /\ addr_arg = U64(4128, 0, 0, 2) => ~addr_result.res.ok

C11_Witness ==
    /\ pc = "addr_done"
    /\ addr_result.op = "new_checked"
    /\ addr_arg = U64(0, 32768, 1792, 0)
    /\ addr_result.res = Ok(U64(65535, 32768, 1792, 0))

\* C12: try_new succeeds whenever bits 48..63 are copies of bit 47 or all
\* zero, returning the sign-extended address, and fails only otherwise;
\* new panics exactly when try_new fails.
C12_TryNew ==
    /\ (pc = "addr_done" /\ addr_result.op = "try_new") =>
          /\ addr_result.res.ok <=>
                (addr_arg[1] = 0 \/ addr_arg[1] = Canonical(addr_arg)[1])
          /\ addr_result.res.ok => addr_result.res.addr = Canonical(addr_arg)
    /\ (pc = "addr_done" /\ addr_result.op = "new") =>
          /\ addr_result.res.ok <=>
                (addr_arg[1] = 0 \/ addr_arg[1] = Canonical(addr_arg)[1])
          /\ addr_result.res.ok => addr_result.res.addr = Canonical(addr_arg)

-----------------------------------------------------------------------------
(* The keyboard task: src/task/keyboard.rs.  The keyboard ISR calls        *)
(* add_scancode and runs to completion between any two steps of the task's *)
(* poll_next.  The k-th scancode the ISR delivers is the number k.         *)

QueueCapacity == 100

\* ArrayQueue::push: Err when the queue is full
push(q, x) == IF Len(q) >= QueueCapacity THEN [ok |-> FALSE, q |-> q]
              ELSE [ok |-> TRUE, q |-> Append(q, x)]

\* A mutant of pop that returns the newest element.
pop_newest(q) == IF q = <<>> THEN [v |-> None, q |-> q]
                 ELSE [v |-> Some(q[Len(q)]), q |-> SubSeq(q, 1, Len(q) - 1)]

\* ArrayQueue::pop: the oldest element, None when the queue is empty
pop(q) == IF q = <<>> THEN [v |-> None, q |-> q]
          ELSE [v |-> Some(Head(q)), q |-> Tail(q)]

InitKeyboard ==
    /\ pc = "keyboard"
    /\ scancode_queue = <<>>
    /\ kb_waker = None
    /\ kb_woken = FALSE
    /\ kb_poll = "idle"
    /\ kb_held = None
    /\ kb_sent = 0
    /\ kb_accepted = <<>>
    /\ kb_yielded = <<>>
    /\ Idle("keyboard")

\* add_scancode, called by the keyboard interrupt handler: push, and
\* WAKER.wake() when the push succeeded
AddScancode ==
    /\ pc = "keyboard"
    /\ kb_sent < MaxScancodes
    /\ kb_sent' = kb_sent + 1
    /\ scancode_queue' = push(scancode_queue, kb_sent + 1).q
    /\ kb_accepted' = IF push(scancode_queue, kb_sent + 1).ok
                      THEN Append(kb_accepted, kb_sent + 1) ELSE kb_accepted
    /\ kb_woken' = IF push(scancode_queue, kb_sent + 1).ok /\ kb_waker # None
                   THEN TRUE ELSE kb_woken
    /\ kb_waker' = IF push(scancode_queue, kb_sent + 1).ok THEN None ELSE kb_waker
    /\ UNCHANGED <<pc, kb_poll, kb_held, kb_yielded>>
    /\ Frame("keyboard")

\* poll_next: the first queue.pop(); Ready when it returned a scancode
PollPop ==
    /\ pc = "keyboard"
    /\ kb_poll \in {"idle", "pending"}
    /\ kb_woken' = FALSE
    /\ scancode_queue' = pop(scancode_queue).q
    /\ kb_yielded' = IF pop(scancode_queue).v # None
                     THEN Append(kb_yielded, Unwrap(pop(scancode_queue).v))
                     ELSE kb_yielded
    /\ kb_poll' = IF pop(scancode_queue).v # None THEN "idle" ELSE "register"
    /\ UNCHANGED <<pc, kb_waker, kb_held, kb_sent, kb_accepted>>
    /\ Frame("keyboard")

\* poll_next: WAKER.register(&cx.waker())
PollRegister ==
    /\ pc = "keyboard"
    /\ kb_poll = "register"
    /\ kb_waker' = Some("keyboard")
    /\ kb_poll' = "pop2"
    /\ UNCHANGED <<pc, scancode_queue, kb_woken, kb_held, kb_sent, kb_accepted, kb_yielded>>
    /\ Frame("keyboard")

\* A mutant of PollPopAgain that returns Pending without the second pop.
PollPending ==
    /\ pc = "keyboard"
    /\ kb_poll = "pop2"
    /\ kb_poll' = "pending"
    /\ UNCHANGED <<pc, scancode_queue, kb_held, kb_waker, kb_woken, kb_sent, kb_accepted,
                   kb_yielded>>
    /\ Frame("keyboard")

\* poll_next: the second queue.pop(); Pending when it returned None
PollPopAgain ==
    /\ pc = "keyboard"
    /\ kb_poll = "pop2"
    /\ scancode_queue' = pop(scancode_queue).q
    /\ kb_held' = pop(scancode_queue).v
    /\ kb_poll' = IF pop(scancode_queue).v # None THEN "take" ELSE "pending"
    /\ UNCHANGED <<pc, kb_waker, kb_woken, kb_sent, kb_accepted, kb_yielded>>
    /\ Frame("keyboard")

\* poll_next: WAKER.take() and Ready(Some(scancode))
PollTake ==
    /\ pc = "keyboard"
    /\ kb_poll = "take"
    /\ kb_waker' = None
    /\ kb_yielded' = Append(kb_yielded, Unwrap(kb_held))
    /\ kb_held' = None
    /\ kb_poll' = "idle"
    /\ UNCHANGED <<pc, scancode_queue, kb_woken, kb_sent, kb_accepted>>
    /\ Frame("keyboard")

NextKeyboard ==
    \/ AddScancode
    \/ PollPop
    \/ PollRegister
    \/ PollPopAgain
    \/ PollTake

SpecKeyboard == InitKeyboard /\ [][NextKeyboard]_vars

\* C13: the scancodes poll_next has yielded are the first of the accepted
\* scancodes, in the order add_scancode pushed them; those not yet yielded
\* wait, in order, in poll_next's hand and in the queue.
C13_ScancodeOrder ==
    pc = "keyboard" =>
        kb_accepted = kb_yielded \o (IF kb_held = None THEN <<>> ELSE <<Unwrap(kb_held)>>)
                                 \o scancode_queue

C13_Witness ==
    /\ pc = "keyboard"
    /\ Len(kb_yielded) >= 3
    /\ kb_poll = "take"
    /\ kb_sent > Len(kb_accepted)

(* C22: when poll_next has returned Pending, a scancode add_scancode has   *)
(* pushed during or after that poll has woken the waker the poll           *)
(* registered: no scancode is in the queue while the task is pending and   *)
(* not woken, and until it is woken its waker stays registered.            *)
C22_NoLostWakeup ==
    (pc = "keyboard" /\ kb_poll = "pending") =>
        /\ scancode_queue # <<>> => kb_woken
        /\ ~kb_woken => (kb_waker = Some("keyboard") /\ kb_held = None)

\* a poll has returned Pending after a scancode was yielded, and add_scancode
\* has then pushed two scancodes and woken the task
C22_Witness ==
    /\ pc = "keyboard"
    /\ kb_poll = "pending"
    /\ Len(kb_yielded) >= 1
    /\ Len(scancode_queue) >= 2
    /\ kb_woken
    /\ kb_waker = None

-----------------------------------------------------------------------------
(* The cooperative executor with the timer task, sleeping tasks and the    *)
(* keyboard task: src/task/timer.rs, src/task/keyboard.rs, src/shell.rs.   *)
(* Interrupt handlers run to completion between any two steps of the       *)
(* executor and of the task it polls.                                      *)

TIMER_FREQUENCY == 250

\* Sleep::new: every tick N msec passed
msec_freq == 1000 \div TIMER_FREQUENCY

\* A mutant of timer_value that rounds up.
timer_value_ceil(sleep_for_ms) ==
    IF sleep_for_ms < msec_freq THEN 1 ELSE (sleep_for_ms + msec_freq - 1) \div msec_freq

\* Sleep::new: the number of ticks registered for a sleep
timer_value(sleep_for_ms) ==
    IF sleep_for_ms < msec_freq THEN 1 ELSE sleep_for_ms \div msec_freq

\* Waker::wake of a task's waker: the task id goes back onto the ready queue;
\* AtomicWaker::wake does nothing when no waker is registered
wake(w, q) == IF w = None THEN q ELSE Append(q, Unwrap(w))

\* BTreeMap::insert and BTreeMap::remove on TIMER_TASKS_MANAGER.tasks
Insert(m, id, v) == [i \in DOMAIN m \cup {id} |-> IF i = id THEN v ELSE m[i]]
Remove(m, id) == [i \in DOMAIN m \ {id} |-> m[i]]

\* A mutant of decrement_one that sets the counter to zero.
decrement_one_zero(v) == [ticks |-> 0, waker |-> None]

\* decrement_all, one entry: checked_sub(1).unwrap_or(0), and wake at zero
decrement_one(v) ==
    [ticks |-> IF v.ticks >= 1 THEN v.ticks - 1 ELSE 0,
     waker |-> IF v.ticks <= 1 THEN None ELSE v.waker]

\* A mutant of Woken that signals no waker.
Woken_none(m, id, end) == <<>>

\* the wakers decrement_all signals, in the map's key order from id on
RECURSIVE Woken(_, _, _)
Woken(m, id, end) ==
    IF id >= end THEN <<>>
    ELSE (IF id \in DOMAIN m /\ decrement_one(m[id]).ticks = 0 /\ m[id].waker # None
          THEN <<Unwrap(m[id].waker)>> ELSE <<>>) \o Woken(m, id + 1, end)

\* TimerTasksManager::decrement_all
decrement_all(m) == [id \in DOMAIN m |-> decrement_one(m[id])]

SHUTDOWN == <<"s", "h", "u", "t", "d", "o", "w", "n">>
HELP == <<"h", "e", "l", "p">>

\* A mutant of print_keypresses that keeps the buffer after a line.
print_keypresses_keep(buf, c) ==
    IF c = "\n"
    THEN IF buf = SHUTDOWN THEN [buf |-> buf, stop |-> TRUE, exit |-> TRUE]
         ELSE [buf |-> buf, stop |-> FALSE, exit |-> FALSE]
    ELSE [buf |-> Append(buf, c), stop |-> FALSE, exit |-> FALSE]

\* print_keypresses, one decoded character
print_keypresses(buf, c) ==
    IF c = "\n"
    THEN IF buf = SHUTDOWN THEN [buf |-> buf, stop |-> TRUE, exit |-> TRUE]
         ELSE [buf |-> <<>>, stop |-> FALSE, exit |-> FALSE]
    ELSE [buf |-> Append(buf, c), stop |-> FALSE, exit |-> FALSE]

\* Shell::char_input
char_input(buf, c) ==
    IF c # "\n" THEN [buf |-> Append(buf, c), stop |-> FALSE, exit |-> FALSE]
    ELSE IF buf = SHUTDOWN THEN [buf |-> buf, stop |-> TRUE, exit |-> FALSE]
    ELSE [buf |-> <<>>, stop |-> FALSE, exit |-> FALSE]

\* the task t consumes the typed characters ks until none is left or it returns
RECURSIVE Feed(_, _, _, _)
Feed(t, buf, ks, stop) ==
    IF ks = <<>> THEN [buf |-> buf, stop |-> stop, exit |-> FALSE, rest |-> <<>>]
    ELSE IF t = "keyboard"
         THEN IF print_keypresses(buf, Head(ks)).exit
              THEN [buf |-> buf, stop |-> TRUE, exit |-> TRUE, rest |-> Tail(ks)]
              ELSE Feed(t, print_keypresses(buf, Head(ks)).buf, Tail(ks), stop)
         ELSE Feed(t, char_input(buf, Head(ks)).buf, Tail(ks),
                   stop \/ char_input(buf, Head(ks)).stop)

SleeperTasks == {"s1", "s2", "s3"}
NoSleeps == [s1 |-> <<>>, s2 |-> <<>>, s3 |-> <<>>]

\* what is spawned before Executor::run and what the tasks sleep for
Scenarios ==
    { [spawn |-> <<"timer", "s1", "s2", "s3">>,
       progs |-> [s1 |-> <<50>>, s2 |-> <<100>>, s3 |-> <<30>>], line |-> <<>>],
      [spawn |-> <<"s1", "s2", "s3", "timer">>,
       progs |-> [s1 |-> <<50>>, s2 |-> <<100>>, s3 |-> <<30>>], line |-> <<>>],
      [spawn |-> <<"timer", "s1">>,
       progs |-> [NoSleeps EXCEPT !.s1 = <<7, 7, 7>>], line |-> <<>>],
      [spawn |-> <<"s1", "s2", "timer">>,
       progs |-> [NoSleeps EXCEPT !.s1 = <<8, 8>>, !.s2 = <<4, 9>>], line |-> <<>>] }

\* the same with a keyboard or shell task, and what is typed
ShellScenarios ==
    { [spawn |-> <<"keyboard", "timer", "s1">>,
       progs |-> [NoSleeps EXCEPT !.s1 = <<8>>], line |-> SHUTDOWN \o <<"\n">>],
      [spawn |-> <<"timer", "s1", "keyboard">>,
       progs |-> [NoSleeps EXCEPT !.s1 = <<4>>],
       line |-> HELP \o <<"\n">> \o SHUTDOWN \o <<"\n">>],
      [spawn |-> <<"keyboard", "timer">>,
       progs |-> NoSleeps,
       line |-> <<"s", "h", "u", "t", "d", "o", "w", "\n">> \o SHUTDOWN \o <<"n", "\n">>],
      [spawn |-> <<"shell", "timer", "s1">>,
       progs |-> [NoSleeps EXCEPT !.s1 = <<8>>],
       line |-> <<"x", "\n">> \o SHUTDOWN \o <<"\n", "x">>] }

\* the state when Executor::run is called
Spawned(sc) ==
    /\ tasks = {sc.spawn[i] : i \in 1..Len(sc.spawn)}
    /\ ready = sc.spawn
    /\ sleepers = [t \in SleeperTasks |-> [prog |-> sc.progs[t], at |-> 0, sleep |-> None, seen |-> 0, since |-> 0]]
    /\ to_type = sc.line
    /\ running = None
    /\ STOP = FALSE
    /\ returned = FALSE
    /\ TIMER_FLAG = None
    /\ timer_waker = None
    /\ timer_poll = "new"
    /\ manager = [id \in {} |-> None]
    /\ NEXT_ID = 0
    /\ raised = 0
    /\ busy_ticks = 0
    /\ timer_logged = FALSE
    /\ observed = 0
    /\ done = <<>>
    /\ keys = <<>>
    /\ key_waker = None
    /\ input_buffer = <<>>
    /\ consumed = <<>>
    /\ Idle("exec")

InitExec ==
    /\ pc = "exec"
    /\ \E sc \in Scenarios : Spawned(sc)

InitShell ==
    /\ pc = "shell"
    /\ \E sc \in ShellScenarios : Spawned(sc)

\* Executor::run waits in hlt for the next interrupt
Halted == running = None /\ ready = <<>>

\* AtomicBool::compare_exchange: Ok(previous value) and the new value stored
\* when the flag holds `current`, Err(previous value) otherwise
compare_exchange(flag, current, new) ==
    IF flag = current THEN [ok |-> TRUE, prev |-> flag, flag |-> new]
    ELSE [ok |-> FALSE, prev |-> flag, flag |-> flag]

\* Ok(true) == result
OkTrue(r) == r.ok /\ r.prev

\* raise_timer: store(true), then compare_exchange(false, true) on the stored
\* flag, and the error is logged when that returns Ok(true)
raise_timer(flag) ==
    [flag   |-> compare_exchange(TRUE, FALSE, TRUE).flag,
     logged |-> OkTrue(compare_exchange(TRUE, FALSE, TRUE))]

\* raise_timer, called on a timer tick: set the flag and wake the timer stream
\* (the ticks are counted and limited except where they continue forever;
\* there at most one tick arrives during one iteration of the executor's
\* loop, a tick period being far longer than a poll)
RaiseTimer ==
    /\ pc \in {"exec", "shell", "live"}
    /\ ~returned
    /\ pc = "live" \/ raised < (IF pc = "shell" THEN MaxShellTicks ELSE MaxTicks)
    /\ Halted \/ busy_ticks < (IF pc = "live" THEN 1 ELSE MaxBusyTicks)
    /\ raised' = IF pc = "live" THEN raised ELSE raised + 1
    /\ busy_ticks' = IF Halted THEN busy_ticks ELSE busy_ticks + 1
    /\ IF TIMER_FLAG # None
       THEN /\ TIMER_FLAG' = Some(raise_timer(Unwrap(TIMER_FLAG)).flag)
            /\ timer_logged' = raise_timer(Unwrap(TIMER_FLAG)).logged
            /\ ready' = wake(timer_waker, ready)
            /\ timer_waker' = None
       ELSE UNCHANGED <<TIMER_FLAG, timer_logged, ready, timer_waker>>
    /\ UNCHANGED <<pc, tasks, running, STOP, returned, timer_poll, manager, NEXT_ID,
                   sleepers, observed, done, to_type, keys, key_waker,
                   input_buffer, consumed>>
    /\ Frame("exec")

\* the keyboard interrupt: the next typed character reaches the keyboard
\* task's stream, and the stream's waker is woken
KeyPressed ==
    /\ pc \in {"exec", "shell", "live"}
    /\ ~returned
    /\ to_type # <<>>
    /\ to_type' = Tail(to_type)
    /\ keys' = Append(keys, Head(to_type))
    /\ ready' = wake(key_waker, ready)
    /\ key_waker' = None
    /\ UNCHANGED <<pc, tasks, running, STOP, returned, TIMER_FLAG, timer_waker, timer_poll,
                   manager, NEXT_ID, sleepers, raised, busy_ticks, timer_logged, observed, done,
                   input_buffer, consumed>>
    /\ Frame("exec")

\* Executor::run, one loop iteration: return when STOP is set, else pop a
\* ready id and poll its task
ExecutorLoop ==
    /\ pc \in {"exec", "shell", "live"}
    /\ ~returned
    /\ running = None
    /\ IF STOP
       THEN /\ returned' = TRUE
            /\ UNCHANGED <<ready, running>>
       ELSE /\ ready # <<>>
            /\ ready' = Tail(ready)
            /\ running' = IF Head(ready) \in tasks THEN Some(Head(ready)) ELSE None
            /\ UNCHANGED returned
    /\ busy_ticks' = IF pc = "live" THEN 0 ELSE busy_ticks
    /\ UNCHANGED <<pc, tasks, STOP, TIMER_FLAG, timer_waker, timer_poll, manager, NEXT_ID,
                   sleepers, raised, timer_logged, observed, done, to_type, keys, key_waker,
                   input_buffer, consumed>>
    /\ Frame("exec")

\* a step of timer_loop that changes only the timer stream
TimerStep(flag, waker, position, run) ==
    /\ TIMER_FLAG' = flag
    /\ timer_waker' = waker
    /\ timer_poll' = position
    /\ running' = run
    /\ UNCHANGED <<pc, tasks, ready, STOP, returned, manager, NEXT_ID, sleepers, raised, busy_ticks, timer_logged,
                   observed, done, to_type, keys, key_waker, input_buffer, consumed>>
    /\ Frame("exec")

\* timer_loop: TimerStream::new
TimerStreamNew ==
    /\ pc \in {"exec", "shell", "live"}
    /\ running = Some("timer")
    /\ timer_poll = "new"
    /\ TimerStep(Some(FALSE), timer_waker, "cas", running)

\* TimerStream::poll_next: the first compare_exchange(true, false)
TimerPollNext ==
    /\ pc \in {"exec", "shell", "live"}
    /\ running = Some("timer")
    /\ timer_poll = "cas"
    /\ TimerStep(Some(compare_exchange(Unwrap(TIMER_FLAG), TRUE, FALSE).flag), timer_waker,
                 IF OkTrue(compare_exchange(Unwrap(TIMER_FLAG), TRUE, FALSE))
                 THEN "decrement" ELSE "register",
                 running)

\* TimerStream::poll_next: WAKER.register(&cx.waker())
TimerPollRegister ==
    /\ pc \in {"exec", "shell", "live"}
    /\ running = Some("timer")
    /\ timer_poll = "register"
    /\ TimerStep(TIMER_FLAG, Some("timer"), "cas2", running)

\* A mutant of TimerPollRetry that returns Pending without the second
\* compare_exchange.
TimerPollPending ==
    /\ pc \in {"exec", "shell", "live"}
    /\ running = Some("timer")
    /\ timer_poll = "cas2"
    /\ TimerStep(TIMER_FLAG, timer_waker, "cas", None)

\* TimerStream::poll_next: the second compare_exchange; Pending when it fails
TimerPollRetry ==
    /\ pc \in {"exec", "shell", "live"}
    /\ running = Some("timer")
    /\ timer_poll = "cas2"
    /\ IF OkTrue(compare_exchange(Unwrap(TIMER_FLAG), TRUE, FALSE))
       THEN TimerStep(Some(compare_exchange(Unwrap(TIMER_FLAG), TRUE, FALSE).flag),
                      timer_waker, "take", running)
       ELSE TimerStep(Some(compare_exchange(Unwrap(TIMER_FLAG), TRUE, FALSE).flag),
                      timer_waker, "cas", None)

\* TimerStream::poll_next: WAKER.take() and Ready(Some(()))
TimerPollTake ==
    /\ pc \in {"exec", "shell", "live"}
    /\ running = Some("timer")
    /\ timer_poll = "take"
    /\ TimerStep(TIMER_FLAG, None, "decrement", running)

\* timer_loop: decrement_all for the tick poll_next returned
TimerLoopTick ==
    /\ pc \in {"exec", "shell", "live"}
    /\ running = Some("timer")
    /\ timer_poll = "decrement"
    /\ manager' = decrement_all(manager)
    /\ ready' = ready \o Woken(manager, 0, NEXT_ID)
    /\ observed' = IF pc = "live" THEN observed ELSE observed + 1
    /\ timer_poll' = "cas"
    /\ UNCHANGED <<pc, tasks, running, STOP, returned, TIMER_FLAG, timer_waker, NEXT_ID,
                   sleepers, raised, busy_ticks, timer_logged, done, to_type, keys, key_waker,
                   input_buffer, consumed>>
    /\ Frame("exec")

\* Sleep::poll's check_task returns true for the Sleep the task awaits
Elapsed(t) ==
    /\ sleepers[t].sleep # None
    /\ manager[Unwrap(sleepers[t].sleep)].ticks = 0

\* the task awaits a Sleep whose counter is above zero
Waiting(t) ==
    /\ sleepers[t].sleep # None
    /\ manager[Unwrap(sleepers[t].sleep)].ticks # 0

\* the number of Sleeps of the task that have returned Ready after this poll
AtAfter(t) == IF Elapsed(t) THEN sleepers[t].at + 1 ELSE sleepers[t].at

\* a poll of a sleeping task: Sleep::poll of the awaited Sleep and, when it
\* is Ready, Sleep::new and the first poll of the next one
SleeperPoll(t) ==
    /\ pc \in {"exec", "shell", "live"}
    /\ running = Some(t)
    /\ running' = None
    /\ done' = IF Elapsed(t)
               THEN Append(done, [task |-> t, nth |-> sleepers[t].at + 1])
               ELSE done
    /\ IF Waiting(t)
       THEN /\ manager' = [manager EXCEPT ![Unwrap(sleepers[t].sleep)].waker = Some(t)]
            /\ UNCHANGED <<tasks, NEXT_ID, sleepers>>
       ELSE IF AtAfter(t) < Len(sleepers[t].prog)
       THEN /\ manager' =
                  Insert(IF Elapsed(t) THEN Remove(manager, Unwrap(sleepers[t].sleep))
                         ELSE manager,
                         NEXT_ID,
                         [ticks |-> timer_value(sleepers[t].prog[AtAfter(t) + 1]),
                          waker |-> Some(t)])
            /\ NEXT_ID' = NEXT_ID + 1
            /\ sleepers' = [sleepers EXCEPT ![t].at = AtAfter(t), ![t].sleep = Some(NEXT_ID),
                                            ![t].seen = observed,
                                            ![t].since = IF AtAfter(t) = 0 THEN raised ELSE @]
            /\ UNCHANGED tasks
       ELSE /\ manager' = IF Elapsed(t) THEN Remove(manager, Unwrap(sleepers[t].sleep))
                          ELSE manager
            /\ sleepers' = [sleepers EXCEPT ![t].at = AtAfter(t), ![t].sleep = None]
            /\ tasks' = tasks \ {t}
            /\ UNCHANGED NEXT_ID
    /\ UNCHANGED <<pc, ready, STOP, returned, TIMER_FLAG, timer_waker, timer_poll,
                   raised, busy_ticks, timer_logged, observed, to_type, keys, key_waker, input_buffer, consumed>>
    /\ Frame("exec")

\* a poll of the keyboard task (print_keypresses) or of the shell task
\* (Shell::char_input for every character): consume the typed characters
KeyboardPoll(t) ==
    /\ pc \in {"exec", "shell", "live"}
    /\ running = Some(t)
    /\ running' = None
    /\ input_buffer' = Feed(t, input_buffer, keys, FALSE).buf
    /\ keys' = Feed(t, input_buffer, keys, FALSE).rest
    /\ consumed' = consumed \o SubSeq(keys, 1, Len(keys) - Len(Feed(t, input_buffer, keys, FALSE).rest))
    /\ STOP' = IF Feed(t, input_buffer, keys, FALSE).stop THEN TRUE ELSE STOP
    /\ IF Feed(t, input_buffer, keys, FALSE).exit
       THEN /\ tasks' = tasks \ {t}
            /\ UNCHANGED key_waker
       ELSE /\ key_waker' = Some(t)
            /\ UNCHANGED tasks
    /\ UNCHANGED <<pc, ready, returned, TIMER_FLAG, timer_waker, timer_poll, manager,
                   NEXT_ID, sleepers, raised, busy_ticks, timer_logged, observed, done, to_type>>
    /\ Frame("exec")

NextExec ==
    \/ RaiseTimer
    \/ ExecutorLoop
    \/ TimerStreamNew
    \/ TimerPollNext
    \/ TimerPollRegister
    \/ TimerPollRetry
    \/ TimerPollTake
    \/ TimerLoopTick
    \/ \E t \in SleeperTasks : SleeperPoll(t)

SpecExec == InitExec /\ [][NextExec]_vars

(* The executor under continuing timer ticks: raise_timer is called again  *)
(* and again, the executor's loop goes on, and a task that is being polled *)
(* runs to the end of its poll.                                            *)
LiveScenarios ==
    { [spawn |-> <<"timer", "s1", "s2">>,
       progs |-> [NoSleeps EXCEPT !.s1 = <<8, 4>>, !.s2 = <<12>>], line |-> <<>>],
      [spawn |-> <<"s1", "timer">>,
       progs |-> [NoSleeps EXCEPT !.s1 = <<4, 4>>], line |-> <<>>] }

InitLive ==
    /\ pc = "live"
    /\ \E sc \in LiveScenarios : Spawned(sc)

TimerTask ==
    \/ TimerStreamNew
    \/ TimerPollNext
    \/ TimerPollRegister
    \/ TimerPollRetry
    \/ TimerPollTake
    \/ TimerLoopTick

SpecLive ==
    /\ InitLive
    /\ [][NextExec]_vars
    /\ WF_vars(RaiseTimer)
    /\ WF_vars(ExecutorLoop)
    /\ WF_vars(TimerTask)
    /\ \A t \in SleeperTasks : WF_vars(SleeperPoll(t))

NextShell ==
    \/ NextExec
    \/ KeyPressed
    \/ \E t \in {"keyboard", "shell"} : KeyboardPoll(t)

SpecShell == InitShell /\ [][NextShell]_vars

\* the ticks Sleep::new registered for the Sleep the task awaits
Registered(t) == timer_value(sleepers[t].prog[sleepers[t].at + 1])

\* the Sleep of task t returns Ready in this step
Completes(t) == Len(done') > Len(done) /\ done'[Len(done')].task = t

\* C14: when a Sleep returns Ready, no Sleep that was registered in the same
\* tick with fewer ticks is still waiting: sleeps created in the same tick
\* complete in increasing order of their registered ticks.
C14_SleepOrder ==
    [][\A b \in SleeperTasks : Completes(b) =>
         \A a \in SleeperTasks \ {b} :
             ~(/\ sleepers[a].sleep # None
               /\ sleepers[a].seen = sleepers[b].seen
               /\ Registered(a) < Registered(b))]_vars

C14_Witness ==
    /\ pc = "exec"
    /\ sleepers["s1"].prog = <<50>> /\ sleepers["s2"].prog = <<100>> /\ sleepers["s3"].prog = <<30>>
    /\ done = <<[task |-> "s3", nth |-> 1], [task |-> "s1", nth |-> 1], [task |-> "s2", nth |-> 1]>>

\* the task sleeps for the same duration every time
Uniform(t) == \A i \in 1..Len(sleepers[t].prog) : sleepers[t].prog[i] = sleepers[t].prog[1]

\* the milliseconds between the creation of the task's first Sleep and now,
\* rounded up to a whole tick
ElapsedMs(t) == (raised - sleepers[t].since + 1) * msec_freq

\* a Sleep returns Ready only after its registered ticks have been observed
ObservedRegistered ==
    [][\A t \in SleeperTasks : Completes(t) =>
         observed - sleepers[t].seen >= Registered(t)]_vars

RECURSIVE EntersShutdown(_, _)
EntersShutdown(cs, cur) ==
    IF cs = <<>> THEN FALSE
    ELSE IF Head(cs) = "\n" THEN cur = SHUTDOWN \/ EntersShutdown(Tail(cs), <<>>)
    ELSE EntersShutdown(Tail(cs), Append(cur, Head(cs)))

\* the ready queue has only grown at its end
NotPopped == Len(ready') >= Len(ready) /\ SubSeq(ready', 1, Len(ready)) = ready

\* C16: STOP is set exactly when the keyboard or shell task has consumed a
\* line that is exactly "shutdown"; it is never cleared; and once it is set
\* the executor polls no further task: its next loop iteration returns from
\* run, whatever is ready or pending.
C16_Shutdown ==
    /\ [](pc = "shell" => (STOP <=> EntersShutdown(consumed, <<>>)))
    /\ [][STOP => /\ STOP'
                  /\ running = None => (running' = None /\ NotPopped)
                  /\ (running = None /\ returned' # returned) => returned']_vars

C16_Witness ==
    /\ pc = "shell"
    /\ STOP
    /\ returned
    /\ ready # <<>>
    /\ \E t \in SleeperTasks : t \in tasks /\ sleepers[t].sleep # None

\* the task id is on the ready queue
InReady(t) == \E i \in 1..Len(ready) : ready[i] = t

\* the ticks poll_next has returned Ready for that decrement_all has not counted
ReadyInHand == IF timer_poll \in {"take", "decrement"} THEN 1 ELSE 0

(* C23: when poll_next of the timer stream has returned Pending, a tick    *)
(* raised during or after that poll has woken the task (a set flag never   *)
(* waits with the task pending and not woken, and until the wake the       *)
(* waker stays registered); poll_next returns Ready only in a step that    *)
(* resets the flag from true to false, and the polls that returned Ready   *)
(* are at most as many as the ticks raised.                                *)
C23_TimerStream ==
    /\ [](pc = "exec" =>
            /\ ("timer" \in tasks /\ running # Some("timer") /\ ~InReady("timer")) =>
                  (TIMER_FLAG = Some(FALSE) /\ timer_waker = Some("timer"))
            /\ observed + ReadyInHand + (IF TIMER_FLAG = Some(TRUE) THEN 1 ELSE 0) <= raised)
    /\ [][(timer_poll \in {"cas", "cas2"} /\ timer_poll' \in {"decrement", "take"}) =>
            (TIMER_FLAG = Some(TRUE) /\ TIMER_FLAG' = Some(FALSE))]_vars

\* the timer task is pending after it has counted a tick, and a new tick has
\* set the flag and woken it
C23_Witness ==
    /\ pc = "exec"
    /\ observed >= 1
    /\ timer_poll = "cas"
    /\ running # Some("timer")
    /\ TIMER_FLAG = Some(TRUE)
    /\ timer_waker = None
    /\ InReady("timer")

\* C24: raise_timer logs the missed-tick error exactly when it finds the
\* flag still set from an earlier tick, and logs nothing when the flag was
\* clear.
C24_MissedTickLogged ==
    [][(raised' = raised + 1 /\ TIMER_FLAG # None) =>
          (timer_logged' <=> TIMER_FLAG = Some(TRUE))]_vars

\* initialize_apic: the frequency of the periodic LAPIC timer, the measured
\* timer counts per second (a 1 GHz bus, divider 16), and the initial count
timer_frequency == 100
avg_ticks == 62500000
lapic_timer_value == avg_ticks \div timer_frequency

\* the milliseconds one period of the LAPIC timer takes
TickMs == (lapic_timer_value * 1000) \div avg_ticks

(* C25: sleep_for(ms) registers max(1, ms / tick_ms) ticks with tick_ms =   *)
(* 1000 / TIMER_FREQUENCY, TIMER_FREQUENCY is the frequency initialize_apic *)
(* programs the LAPIC timer with, and so the registered ticks take ms       *)
(* milliseconds of real time to within one tick.                            *)
C25_SleepTicks ==
    [][\A t \in SleeperTasks : (running = Some(t) /\ NEXT_ID' = NEXT_ID + 1) =>
          /\ manager'[NEXT_ID].ticks =
                IF sleepers'[t].prog[sleepers'[t].at + 1] \div (1000 \div TIMER_FREQUENCY) < 1
                THEN 1
                ELSE sleepers'[t].prog[sleepers'[t].at + 1] \div (1000 \div TIMER_FREQUENCY)
          /\ TIMER_FREQUENCY = timer_frequency
          /\ manager'[NEXT_ID].ticks * TickMs
                <= sleepers'[t].prog[sleepers'[t].at + 1] + TickMs
          /\ manager'[NEXT_ID].ticks * TickMs
                >= sleepers'[t].prog[sleepers'[t].at + 1] - TickMs]_vars

\* what sleep_for registers, without the comparison with real time
SleepTicksRegistered ==
    [][\A t \in SleeperTasks : (running = Some(t) /\ NEXT_ID' = NEXT_ID + 1) =>
          manager'[NEXT_ID].ticks =
                IF sleepers'[t].prog[sleepers'[t].at + 1] \div (1000 \div TIMER_FREQUENCY) < 1
                THEN 1
                ELSE sleepers'[t].prog[sleepers'[t].at + 1] \div (1000 \div TIMER_FREQUENCY)]_vars

\* the ids Sleep::new can hand out in the modelled scenarios
SleepIds == 0..3

\* the task is polled while it awaits the Sleep with this id
PolledAwaiting(t, id) == running = Some(t) /\ running' = None /\ sleepers[t].sleep = Some(id)

(* C26: under continuing timer ticks and a fair executor every awaited     *)
(* Sleep eventually returns Ready.  On each observed tick timer_loop       *)
(* decrements every registered counter, saturating at 0; the poll of a     *)
(* Sleep whose counter is 0 removes its entry and returns Ready; the poll  *)
(* of a Sleep whose counter is above 0 returns Pending, keeps the entry    *)
(* and registers the waker, which the tick that brings the counter to 0    *)
(* signals.                                                                *)
C26_SleepCompletes ==
    /\ \A t \in SleeperTasks : \A id \in SleepIds :
          (sleepers[t].sleep = Some(id)) ~> (sleepers[t].sleep # Some(id))
    /\ [][(timer_poll = "decrement" /\ timer_poll' = "cas") =>
            \A id \in DOMAIN manager :
                /\ id \in DOMAIN manager'
                /\ manager'[id].ticks = IF manager[id].ticks >= 1
                                        THEN manager[id].ticks - 1 ELSE 0
                /\ (manager'[id].ticks = 0 /\ manager[id].waker # None) =>
                      \E i \in 1..Len(ready') : ready'[i] = Unwrap(manager[id].waker)]_vars
    /\ [][\A t \in SleeperTasks : \A id \in SleepIds : PolledAwaiting(t, id) =>
            IF manager[id].ticks = 0
            THEN /\ id \notin DOMAIN manager'
                 /\ sleepers'[t].sleep # Some(id)
                 /\ done' = Append(done, [task |-> t, nth |-> sleepers[t].at + 1])
            ELSE /\ manager' = [manager EXCEPT ![id].waker = Some(t)]
                 /\ sleepers' = sleepers
                 /\ done' = done]_vars

\* every Sleep of the first scenario has returned Ready
C26_Witness ==
    /\ pc = "live"
    /\ Len(done) = 3
    /\ \E i \in 1..3 : done[i] = [task |-> "s2", nth |-> 1]
    /\ done[3] = [task |-> "s1", nth |-> 2]
    /\ manager = [id \in {} |-> None]

-----------------------------------------------------------------------------
(* The timer interrupt: src/interrupts.rs, timer_interrupt_handler on      *)
(* vector 32 of the local APIC, with the timer stream of task/timer.rs     *)
(* initialised and timer_loop waiting for a tick.                          *)

InitIrq ==
    /\ pc = "irq"
    /\ lapic = [irr |-> FALSE, isr |-> FALSE]
    /\ timer_I = 0
    /\ timer_log = 0
    /\ tasks = {"timer"}
    /\ ready = <<>>
    /\ running = None
    /\ STOP = FALSE
    /\ returned = FALSE
    /\ TIMER_FLAG = Some(FALSE)
    /\ timer_waker = Some("timer")
    /\ timer_poll = "cas"
    /\ manager = <<>>
    /\ NEXT_ID = 0
    /\ sleepers = <<>>
    /\ raised = 0
    /\ busy_ticks = 0
    /\ timer_logged = FALSE
    /\ observed = 0
    /\ done = <<>>
    /\ to_type = <<>>
    /\ keys = <<>>
    /\ key_waker = None
    /\ input_buffer = <<>>
    /\ consumed = <<>>
    /\ Idle("irq")

\* the periodic LAPIC timer expires: vector 32 is requested
LapicTimerExpires ==
    /\ pc = "irq"
    /\ timer_I < MaxInterrupts
    /\ ~lapic.irr
    /\ lapic' = [lapic EXCEPT !.irr = TRUE]
    /\ UNCHANGED <<pc, timer_I, timer_log>>
    /\ Frame("irq")

\* the CPU accepts vector 32: the request becomes the interrupt in service
DeliverTimerInterrupt ==
    /\ pc = "irq"
    /\ lapic.irr
    /\ ~lapic.isr
    /\ lapic' = [irr |-> FALSE, isr |-> TRUE]
    /\ UNCHANGED <<pc, timer_I, timer_log>>
    /\ Frame("irq")

\* timer_interrupt_handler: log every 100th tick, count it, and
\* APIC.lock().notify_end_of_interrupt()
timer_interrupt_handler ==
    /\ pc = "irq"
    /\ lapic.isr
    /\ timer_log' = IF timer_I % 100 = 0 THEN timer_log + 1 ELSE timer_log
    /\ timer_I' = timer_I + 1
    /\ lapic' = [lapic EXCEPT !.isr = FALSE]
    /\ UNCHANGED pc
    /\ Frame("irq")

NextIrq ==
    \/ LapicTimerExpires
    \/ DeliverTimerInterrupt
    \/ timer_interrupt_handler

SpecIrq == InitIrq /\ [][NextIrq]_vars

\* C17: every run of the timer interrupt handler sets the timer flag, wakes
\* the waker of the timer stream and ends with the interrupt no longer in
\* service at the local APIC.
C17_TimerInterrupt ==
    [][timer_I' # timer_I =>
         /\ TIMER_FLAG' = Some(TRUE)
         /\ timer_waker' = None
         /\ ready' = wake(timer_waker, ready)
         /\ ~lapic'.isr]_vars

-----------------------------------------------------------------------------
(* The logger lock and the interrupt flag: shared_lib/src/interrupts.rs    *)
(* (without_interrupts), shared_lib/src/logger.rs (LockedLogger),          *)
(* src/bits.rs (get_bits).  RFLAGS is a number below 2^31.                 *)

RECURSIVE Pow2(_)
Pow2(n) == IF n = 0 THEN 1 ELSE 2 * Pow2(n - 1)

\* x & (0xffff_ffff_ffff_ffff >> end), for x below 2^31
LowBits(x, end) == IF 64 - end >= 31 THEN x ELSE x % Pow2(64 - end)

\* A mutant of get_bits that masks with the width of the range.
get_bits_width(num, start, end) == (num \div Pow2(start)) % Pow2(end - start)

\* get_bits(num, start..end)
get_bits(num, start, end) ==
    IF end # 64 THEN LowBits(num \div Pow2(start), end) ELSE num \div Pow2(start)

\* the interrupt flag, bit 9 of RFLAGS
IF_BIT == 9
InterruptsEnabled(f) == (f \div Pow2(IF_BIT)) % 2 = 1
cli(f) == IF InterruptsEnabled(f) THEN f - Pow2(IF_BIT) ELSE f
sti(f) == IF InterruptsEnabled(f) THEN f ELSE f + Pow2(IF_BIT)

\* CF, ZF, IF, DF, OF: the flags that vary; bit 1 of RFLAGS is always set
FlagBits == {0, 6, 9, 10, 11}

RECURSIVE SumBits(_)
SumBits(bits) ==
    IF bits = {} THEN 0
    ELSE LET b == CHOOSE x \in bits : TRUE IN Pow2(b) + SumBits(bits \ {b})

InitLogger ==
    /\ pc = "logger"
    /\ \E bits \in SUBSET FlagBits : rflags = Pow2(1) + SumBits(bits)
    /\ prior_rflags = rflags
    /\ saved_intpt_flag = FALSE
    /\ log_pc = "call"
    /\ logger_lock = None
    /\ handler = "none"
    /\ handler_rflags = 0
    /\ Idle("logger")

\* without_interrupts: pushfq; pop, and saved_intpt_flag
ReadFlags ==
    /\ pc = "logger"
    /\ handler = "none"
    /\ log_pc = "call"
    /\ prior_rflags' = rflags
    /\ saved_intpt_flag' = (get_bits(rflags, 9, 10) = 1)
    /\ log_pc' = "cli"
    /\ UNCHANGED <<pc, rflags, logger_lock, handler, handler_rflags>>
    /\ Frame("logger")

\* without_interrupts: cli when interrupts were found enabled
Cli ==
    /\ pc = "logger"
    /\ handler = "none"
    /\ log_pc = "cli"
    /\ rflags' = IF saved_intpt_flag THEN cli(rflags) ELSE rflags
    /\ log_pc' = "lock"
    /\ UNCHANGED <<pc, prior_rflags, saved_intpt_flag, logger_lock, handler, handler_rflags>>
    /\ Frame("logger")

\* LockedLogger::log / write_fmt: self.0.lock()
LoggerLock ==
    /\ pc = "logger"
    /\ handler = "none"
    /\ log_pc = "lock"
    /\ logger_lock = None
    /\ logger_lock' = Some("task")
    /\ log_pc' = "write"
    /\ UNCHANGED <<pc, rflags, prior_rflags, saved_intpt_flag, handler, handler_rflags>>
    /\ Frame("logger")

\* LockedLogger::log / write_fmt: the write, and the guard is dropped
LoggerWrite ==
    /\ pc = "logger"
    /\ handler = "none"
    /\ log_pc = "write"
    /\ logger_lock' = None
    /\ log_pc' = "sti"
    /\ UNCHANGED <<pc, rflags, prior_rflags, saved_intpt_flag, handler, handler_rflags>>
    /\ Frame("logger")

\* without_interrupts: sti when interrupts were found enabled, and return
Sti ==
    /\ pc = "logger"
    /\ handler = "none"
    /\ log_pc = "sti"
    /\ rflags' = IF saved_intpt_flag THEN sti(rflags) ELSE rflags
    /\ log_pc' = "returned"
    /\ UNCHANGED <<pc, prior_rflags, saved_intpt_flag, logger_lock, handler, handler_rflags>>
    /\ Frame("logger")

\* the code between two calls of the logger: arithmetic flags change, and
\* the logger is called again
NextCall ==
    /\ pc = "logger"
    /\ handler = "none"
    /\ log_pc = "returned"
    /\ \E bits \in SUBSET (FlagBits \ {IF_BIT}) :
          rflags' = Pow2(1) + SumBits(bits) + (IF InterruptsEnabled(rflags) THEN Pow2(IF_BIT) ELSE 0)
    /\ log_pc' = "call"
    /\ UNCHANGED <<pc, prior_rflags, saved_intpt_flag, logger_lock, handler, handler_rflags>>
    /\ Frame("logger")

\* an interrupt is taken through an interrupt gate: RFLAGS is pushed and
\* IF is cleared
Interrupt ==
    /\ pc = "logger"
    /\ handler = "none"
    /\ InterruptsEnabled(rflags)
    /\ handler_rflags' = rflags
    /\ rflags' = cli(rflags)
    /\ handler' = "log"
    /\ UNCHANGED <<pc, prior_rflags, saved_intpt_flag, log_pc, logger_lock>>
    /\ Frame("logger")

\* the handler logs (log::info! in timer_interrupt_handler, breakpoint_handler):
\* LockedLogger::log takes the lock, writes and releases it, and iretq
\* restores RFLAGS; when the lock is held the handler spins
HandlerLog ==
    /\ pc = "logger"
    /\ handler = "log"
    /\ IF logger_lock = None
       THEN /\ handler' = "none"
            /\ rflags' = handler_rflags
       ELSE /\ handler' = "spinning"
            /\ UNCHANGED rflags
    /\ UNCHANGED <<pc, prior_rflags, saved_intpt_flag, log_pc, logger_lock, handler_rflags>>
    /\ Frame("logger")

NextLogger ==
    \/ ReadFlags
    \/ Cli
    \/ LoggerLock
    \/ LoggerWrite
    \/ Sti
    \/ NextCall
    \/ Interrupt
    \/ HandlerLog

SpecLogger == InitLogger /\ [][NextLogger]_vars

\* C18: while the logger spinlock is held IF is 0; when without_interrupts
\* returns IF is what it was at the call; and the interrupt handler that
\* logs never spins on the held lock.
C18_LoggerLock ==
    pc = "logger" =>
        /\ logger_lock # None => ~InterruptsEnabled(rflags)
        /\ log_pc = "returned" /\ handler = "none" =>
               InterruptsEnabled(rflags) = InterruptsEnabled(prior_rflags)
        /\ handler # "spinning"

-----------------------------------------------------------------------------
(* The kernel heap: src/allocator.rs (init_heap) and the heap test         *)
(* tests/heap_allocation.rs.  Heap addresses are offsets from HEAP_START,  *)
(* which is aligned to 64 KiB.                                             *)

HEAP_SIZE == 100 * 1024

\* allocator.rs align_up, for a power of two align
align_up(addr, align) == ((addr + align - 1) \div align) * align

\* A mutant of init_heap that never initialises the allocator.
init_heap_uninit == [pages |-> {p \in 0..(HEAP_SIZE \div PAGE_SIZE) : p * PAGE_SIZE < HEAP_SIZE},
                     holes |-> <<>>]

\* init_heap: map a frame at every page of [HEAP_START, HEAP_START + HEAP_SIZE)
\* and ALLOCATOR.lock().init(HEAP_START, HEAP_SIZE)
init_heap == [pages |-> {p \in 0..(HEAP_SIZE \div PAGE_SIZE) : p * PAGE_SIZE < HEAP_SIZE},
              holes |-> <<[start |-> 0, size |-> HEAP_SIZE]>>]

\* the block sizes of the fixed-size-block allocator
BLOCK_SIZES == <<8, 16, 32, 64, 128, 256, 512, 1024, 2048>>

Max(a, b) == IF a >= b THEN a ELSE b

\* the free list a layout is served from, 0 when it goes to the fallback heap
list_index(size, align) ==
    IF \E i \in 1..Len(BLOCK_SIZES) : BLOCK_SIZES[i] >= Max(size, align)
    THEN CHOOSE i \in 1..Len(BLOCK_SIZES) :
            /\ BLOCK_SIZES[i] >= Max(size, align)
            /\ \A j \in 1..(i - 1) : BLOCK_SIZES[j] < Max(size, align)
    ELSE 0

\* the hole fits an allocation of size bytes aligned to align
Fits(hole, size, align) == align_up(hole.start, align) + size <= hole.start + hole.size

\* what is left of a hole after the allocation was cut out of it
CutHole(hole, size, align) ==
    (IF align_up(hole.start, align) > hole.start
     THEN <<[start |-> hole.start, size |-> align_up(hole.start, align) - hole.start]>>
     ELSE <<>>)
    \o (IF align_up(hole.start, align) + size < hole.start + hole.size
        THEN <<[start |-> align_up(hole.start, align) + size,
                size |-> hole.start + hole.size - (align_up(hole.start, align) + size)]>>
        ELSE <<>>)

\* the fallback heap: first fit over the holes, from hole i on
RECURSIVE FirstFit(_, _, _, _)
FirstFit(holes, i, size, align) ==
    IF i > Len(holes) THEN [addr |-> None, holes |-> holes]
    ELSE IF Fits(holes[i], size, align)
    THEN [addr |-> Some(align_up(holes[i].start, align)),
          holes |-> SubSeq(holes, 1, i - 1) \o CutHole(holes[i], size, align)
                    \o SubSeq(holes, i + 1, Len(holes))]
    ELSE FirstFit(holes, i + 1, size, align)

\* adjacent holes are merged
RECURSIVE Merge(_)
Merge(holes) ==
    IF Len(holes) < 2 THEN holes
    ELSE IF holes[1].start + holes[1].size = holes[2].start
    THEN Merge(<<[start |-> holes[1].start, size |-> holes[1].size + holes[2].size]>>
               \o SubSeq(holes, 3, Len(holes)))
    ELSE <<holes[1]>> \o Merge(Tail(holes))

\* the fallback heap: a freed region becomes a hole again
Release(holes, addr, size) ==
    Merge(SelectSeq(holes, LAMBDA h : h.start < addr)
          \o <<[start |-> addr, size |-> size]>>
          \o SelectSeq(holes, LAMBDA h : h.start > addr))

\* GlobalAlloc::alloc: pop the free list of the block size; when it is empty
\* cut a block of that size from the fallback heap; other layouts are served
\* by the fallback heap
alloc(lists, holes, size, align) ==
    IF list_index(size, align) = 0
    THEN [addr |-> FirstFit(holes, 1, size, align).addr, lists |-> lists,
          holes |-> FirstFit(holes, 1, size, align).holes]
    ELSE IF lists[list_index(size, align)] # <<>>
    THEN [addr |-> Some(Head(lists[list_index(size, align)])),
          lists |-> [lists EXCEPT ![list_index(size, align)] = Tail(@)],
          holes |-> holes]
    ELSE [addr |-> FirstFit(holes, 1, BLOCK_SIZES[list_index(size, align)],
                            BLOCK_SIZES[list_index(size, align)]).addr,
          lists |-> lists,
          holes |-> FirstFit(holes, 1, BLOCK_SIZES[list_index(size, align)],
                             BLOCK_SIZES[list_index(size, align)]).holes]

\* GlobalAlloc::dealloc: the block goes onto the free list of its block
\* size; other layouts go back to the fallback heap
dealloc(lists, holes, addr, size, align) ==
    IF list_index(size, align) = 0
    THEN [lists |-> lists, holes |-> Release(holes, addr, size)]
    ELSE [lists |-> [lists EXCEPT ![list_index(size, align)] = <<addr>> \o @],
          holes |-> holes]

\* the layouts allocated: an i32, a usize, and one above every block size
Layouts == {[size |-> 4, align |-> 4], [size |-> 8, align |-> 8], [size |-> 4096, align |-> 8]}

\* the heap after init_heap, before the first allocation
HeapReady ==
    /\ heap_pages = init_heap.pages
    /\ fallback = init_heap.holes
    /\ free_lists = [i \in 1..Len(BLOCK_SIZES) |-> <<>>]
    /\ live = {}
    /\ alloc_failed = FALSE
    /\ test_i = 0
    /\ long_lived = None
    /\ boxed = None
    /\ Idle("heap")

InitHeap ==
    /\ pc = "heap"
    /\ test_pc \in {"any", "many_boxes", "many_boxes_long_lived"}
    /\ HeapReady

\* an allocation of some layout
Alloc ==
    /\ pc = "heap"
    /\ test_pc = "any"
    /\ Cardinality(live) < MaxLive
    /\ \E l \in Layouts :
          /\ free_lists' = alloc(free_lists, fallback, l.size, l.align).lists
          /\ fallback' = alloc(free_lists, fallback, l.size, l.align).holes
          /\ IF alloc(free_lists, fallback, l.size, l.align).addr = None
             THEN alloc_failed' = TRUE /\ UNCHANGED live
             ELSE /\ live' = live \cup {[addr |-> Unwrap(alloc(free_lists, fallback, l.size, l.align).addr),
                                         size |-> l.size, align |-> l.align]}
                  /\ UNCHANGED alloc_failed
    /\ UNCHANGED <<pc, heap_pages, test_pc, test_i, long_lived, boxed>>
    /\ Frame("heap")

\* a live allocation is released
Dealloc ==
    /\ pc = "heap"
    /\ test_pc = "any"
    /\ \E a \in live :
          /\ free_lists' = dealloc(free_lists, fallback, a.addr, a.size, a.align).lists
          /\ fallback' = dealloc(free_lists, fallback, a.addr, a.size, a.align).holes
          /\ live' = live \ {a}
    /\ UNCHANGED <<pc, heap_pages, alloc_failed, test_pc, test_i, long_lived, boxed>>
    /\ Frame("heap")

\* many_boxes_long_lived: let long_lived = Box::new(1)
TestLongLived ==
    /\ pc = "heap"
    /\ test_pc = "many_boxes_long_lived"
    /\ long_lived = None
    /\ ~alloc_failed
    /\ free_lists' = alloc(free_lists, fallback, 4, 4).lists
    /\ fallback' = alloc(free_lists, fallback, 4, 4).holes
    /\ long_lived' = alloc(free_lists, fallback, 4, 4).addr
    /\ alloc_failed' = (alloc(free_lists, fallback, 4, 4).addr = None)
    /\ live' = IF alloc(free_lists, fallback, 4, 4).addr = None THEN live
               ELSE live \cup {[addr |-> Unwrap(alloc(free_lists, fallback, 4, 4).addr),
                                size |-> 4, align |-> 4]}
    /\ UNCHANGED <<pc, heap_pages, test_pc, test_i, boxed>>
    /\ Frame("heap")

\* many_boxes, many_boxes_long_lived: let x = Box::new(i)
TestBox ==
    /\ pc = "heap"
    /\ \/ test_pc = "many_boxes"
       \/ test_pc = "many_boxes_long_lived" /\ long_lived # None
    /\ ~alloc_failed
    /\ boxed = None
    /\ test_i < HEAP_SIZE
    /\ free_lists' = alloc(free_lists, fallback, 8, 8).lists
    /\ fallback' = alloc(free_lists, fallback, 8, 8).holes
    /\ boxed' = alloc(free_lists, fallback, 8, 8).addr
    /\ alloc_failed' = (alloc(free_lists, fallback, 8, 8).addr = None)
    /\ live' = IF alloc(free_lists, fallback, 8, 8).addr = None THEN live
               ELSE live \cup {[addr |-> Unwrap(alloc(free_lists, fallback, 8, 8).addr),
                                size |-> 8, align |-> 8]}
    /\ UNCHANGED <<pc, heap_pages, test_pc, test_i, long_lived>>
    /\ Frame("heap")

\* many_boxes, many_boxes_long_lived: x is dropped at the end of the loop body
TestDrop ==
    /\ pc = "heap"
    /\ test_pc \in {"many_boxes", "many_boxes_long_lived"}
    /\ boxed # None
    /\ free_lists' = dealloc(free_lists, fallback, Unwrap(boxed), 8, 8).lists
    /\ fallback' = dealloc(free_lists, fallback, Unwrap(boxed), 8, 8).holes
    /\ live' = live \ {[addr |-> Unwrap(boxed), size |-> 8, align |-> 8]}
    /\ boxed' = None
    /\ test_i' = test_i + 1
    /\ UNCHANGED <<pc, heap_pages, alloc_failed, test_pc, long_lived>>
    /\ Frame("heap")

NextHeap ==
    \/ Alloc
    \/ Dealloc
    \/ TestLongLived
    \/ TestBox
    \/ TestDrop

SpecHeap == InitHeap /\ [][NextHeap]_vars

\* the bytes of an allocation
Bytes(a) == a.addr .. (a.addr + a.size - 1)

\* C19: a released block is at the head of the free list of its block size,
\* and the next allocation of that size gets it without touching the
\* fallback heap; the Boxes of the heap tests are always allocated, inside
\* the mapped heap and apart from every other live allocation.
C19_BlockReuse ==
    /\ [](pc = "heap" =>
            /\ test_pc # "any" => ~alloc_failed
            /\ \A a \in live :
                  /\ a.addr % a.align = 0
                  /\ \A b \in Bytes(a) : b \div PAGE_SIZE \in heap_pages
                  /\ \A c \in live \ {a} : Bytes(a) \cap Bytes(c) = {})
    /\ [][\A a \in live \ live' :
            list_index(a.size, a.align) # 0 =>
                /\ free_lists'[list_index(a.size, a.align)] # <<>>
                /\ Head(free_lists'[list_index(a.size, a.align)]) = a.addr]_vars
    /\ [][\A a \in live' \ live :
            (list_index(a.size, a.align) # 0 /\ free_lists[list_index(a.size, a.align)] # <<>>) =>
                /\ a.addr = Head(free_lists[list_index(a.size, a.align)])
                /\ fallback' = fallback]_vars

C19_Witness ==
    /\ pc = "heap"
    /\ test_pc = "many_boxes_long_lived"
    /\ test_i = HEAP_SIZE
    /\ long_lived # None
    /\ ~alloc_failed

-----------------------------------------------------------------------------
(* Descriptor tables and the double fault: src/gdt.rs (TSS, GDT, init),    *)
(* src/idt.rs (EntryOptions, Entry, InterruptDescriptorTable),             *)
(* src/interrupts.rs (IDT), tests/stack_overflow.rs.  The processor's part *)
(* is the loading of the task register and the delivery of an exception.   *)

DOUBLE_FAULT_IST_INDEX == 0
STACK_SIZE == 4096 * 5

\* size_of::<TaskStateSegment>(): repr(C, packed(4))
TssSize == 4 + 3 * 8 + 8 + 7 * 8 + 8 + 2 + 2

\* TaskStateSegment::new
TaskStateSegment ==
    [interrupt_stack_table |-> [i \in 0..6 |-> Addr(0, 0)], iomap_base |-> TssSize]

\* the TSS static: interrupt_stack_table[DOUBLE_FAULT_IST_INDEX] = stack_end
TSS(stack_start) ==
    [TaskStateSegment EXCEPT
        !.interrupt_stack_table[DOUBLE_FAULT_IST_INDEX] = AddBytes(stack_start, STACK_SIZE)]

\* ptr >> 24 and ptr & 0xff_ffff of a pointer below 2^43
PtrAbove24(ptr) == ptr[1] \div 4096
PtrLow24(ptr) == (ptr[1] % 4096) * PAGE_SIZE + ptr[2]

(* Descriptor::tss_segment_unchecked: the low word by its fields, limit in *)
(* bits 0..16, base in 16..40, access byte in 40..48, limit and flags in   *)
(* 48..56, base in 56..64, and the high word.  get_bits(ptr, 0..24) masks  *)
(* with 0xffff_ffff_ffff_ffff >> 24 and so keeps bits 0..40 of ptr: shifted *)
(* by 16, bits 24..40 of ptr are or-ed into bits 40..56.  mask << 56 keeps  *)
(* the low byte of get_bits(ptr, 24..32).                                  *)
tss_segment_unchecked(ptr) ==
    [limit     |-> TssSize - 1,
     base_low  |-> PtrLow24(ptr),
     access    |-> BitOr(BitOr(128, LowBits(PtrAbove24(ptr), 24 + 24) % 256), 9),
     flags     |-> LowBits(PtrAbove24(ptr), 24 + 24) \div 256,
     base_mid  |-> get_bits(PtrAbove24(ptr), 0, 32) % 256,
     base_high |-> get_bits(PtrAbove24(ptr), 32 - 24, 64)]

\* the base address and the limit the processor reads from a system descriptor
DescriptorBase(d) ==
    Addr(d.base_low \div PAGE_SIZE + 4096 * (d.base_mid + 256 * d.base_high),
         d.base_low % PAGE_SIZE)
DescriptorLimit(d) == d.limit + 65536 * (d.flags % 16)

\* ltr accepts a present system descriptor of type 0b1001 that covers the TSS
AvailableTss(d) ==
    /\ d.access % 32 = 9
    /\ d.access \div 128 = 1
    /\ DescriptorLimit(d) >= TssSize - 1

\* EntryOptions::minimal, 0b1110_0000_0000
minimal == 3584

\* EntryOptions::set_present
set_present(options) == BitOr(options, 32768)

\* A mutant of set_stack_index that stores the software index.
set_stack_index_software(options, index) == BitOr(options, get_bits(index, 0, 3) % 65536)

\* EntryOptions::set_stack_index
set_stack_index(options, index) == BitOr(options, get_bits(index + 1, 0, 3) % 65536)

\* Entry::missing
missing == [handler |-> None, options |-> minimal]

\* Entry::set_handler_fn and set_handler_addr
set_handler_fn(entry, handler_fn) ==
    [handler |-> Some(handler_fn), options |-> set_present(entry.options)]

\* InterruptDescriptorTable::new: the entries of the page fault and of the double fault
InterruptDescriptorTable == [double_fault |-> missing, page_fault |-> missing]

\* set_handler_fn(handler).set_stack_index(gdt::DOUBLE_FAULT_IST_INDEX)
OnDoubleFaultStack(handler_fn) ==
    [set_handler_fn(missing, handler_fn) EXCEPT
        !.options = set_stack_index(set_handler_fn(missing, handler_fn).options,
                                    DOUBLE_FAULT_IST_INDEX)]

\* tests/stack_overflow.rs: TEST_IDT
TEST_IDT ==
    [InterruptDescriptorTable EXCEPT
        !.double_fault = OnDoubleFaultStack("test_double_fault_handler")]

\* interrupts.rs: IDT
IDT ==
    [InterruptDescriptorTable EXCEPT
        !.double_fault = OnDoubleFaultStack("double_fault_handler"),
        !.page_fault = set_handler_fn(missing, "page_fault_handler")]

\* the kernel stack the loader has identity-mapped, and the statics of the image
KernelStackPage == 1024
KernelStack == Addr(KernelStackPage, 0)
TssPtrs == { Addr(KernelVirtPage + 40, 0), Addr(KernelVirtPage + 40, 2056) }
IstStacks == { Addr(KernelVirtPage + 50, 0), Addr(KernelVirtPage + 50, 13) }

\* a is below b
Below(a, b) == a[1] < b[1] \/ (a[1] = b[1] /\ a[2] < b[2])

\* the pages the kernel can write: its stack, what is mapped below it, its image
Writable(a) ==
    \/ a[1] \in (KernelStackPage - below)..(KernelStackPage + stack_depth - 1)
    \/ a[1] \in KernelVirtPage..(KernelVirtPage + KernelPages - 1)

InitFault ==
    /\ pc = "fault"
    /\ fault_pc = "gdt_init"
    /\ rsp = AddBytes(stack_top(KernelStack, stack_depth), -8)
    /\ tss_ptr \in TssPtrs
    /\ ist_stack \in IstStacks
    /\ below \in 0..MaxBelow
    /\ tss = None
    /\ gdt_tss = None
    /\ tr = None
    /\ idt = None
    /\ Idle("fault")

\* gdt::init: the TSS and GDT statics are initialized, lgdt, ltr
GdtInit ==
    /\ pc = "fault"
    /\ fault_pc = "gdt_init"
    /\ tss' = Some(TSS(ist_stack))
    /\ gdt_tss' = Some(tss_segment_unchecked(tss_ptr))
    /\ tr' = IF AvailableTss(tss_segment_unchecked(tss_ptr))
             THEN Some(DescriptorBase(tss_segment_unchecked(tss_ptr))) ELSE None
    /\ fault_pc' = IF AvailableTss(tss_segment_unchecked(tss_ptr))
                   THEN "init_idt" ELSE "triple_fault"
    /\ UNCHANGED <<pc, rsp, tss_ptr, ist_stack, below, idt>>
    /\ Frame("fault")

\* init_test_idt of the test, init_idt of the kernel: lidt
InitIdt ==
    /\ pc = "fault"
    /\ fault_pc = "init_idt"
    /\ idt' \in {Some(TEST_IDT), Some(IDT)}
    /\ fault_pc' = "stack_overflow"
    /\ UNCHANGED <<pc, rsp, tss_ptr, ist_stack, below, tss, gdt_tss, tr>>
    /\ Frame("fault")

\* stack_overflow: for each recursion, the return address is pushed
StackOverflow ==
    /\ pc = "fault"
    /\ fault_pc = "stack_overflow"
    /\ rsp' = IF Writable(AddBytes(rsp, -8)) THEN AddBytes(rsp, -8) ELSE rsp
    /\ fault_pc' = IF Writable(AddBytes(rsp, -8)) THEN "stack_overflow" ELSE "page_fault"
    /\ UNCHANGED <<pc, tss_ptr, ist_stack, below, tss, gdt_tss, tr, idt>>
    /\ Frame("fault")

\* the TSS the processor reads at the base of the task register
CpuTss == IF tr = Some(tss_ptr) THEN Unwrap(tss) ELSE TaskStateSegment

IstField(options) == options % 8
Present(options) == (options \div 32768) % 2 = 1

\* the stack an exception with these options is delivered on: IST n or the current one
DeliveryStack(options) ==
    IF IstField(options) = 0 THEN rsp
    ELSE CpuTss.interrupt_stack_table[IstField(options) - 1]

\* the exception frame: RSP aligned to 16, then SS, RSP, RFLAGS, CS, RIP, error code
ExceptionFrame(top) == AddBytes(Addr(top[1], top[2] - (top[2] % 16)), -(6 * 8))

Deliverable(entry) ==
    /\ Present(entry.options)
    /\ Writable(ExceptionFrame(DeliveryStack(entry.options)))
    /\ Writable(AddBytes(DeliveryStack(entry.options), -1))

\* the page fault of the push below the stack: a fault of its delivery is a double fault
PageFault ==
    /\ pc = "fault"
    /\ fault_pc = "page_fault"
    /\ fault_pc' = IF Deliverable(Unwrap(idt).page_fault) THEN "page_fault_handler" ELSE "double_fault"
    /\ rsp' = IF Deliverable(Unwrap(idt).page_fault)
              THEN ExceptionFrame(DeliveryStack(Unwrap(idt).page_fault.options)) ELSE rsp
    /\ UNCHANGED <<pc, tss_ptr, ist_stack, below, tss, gdt_tss, tr, idt>>
    /\ Frame("fault")

\* the double fault: a fault of its delivery shuts the processor down
DoubleFault ==
    /\ pc = "fault"
    /\ fault_pc = "double_fault"
    /\ fault_pc' = IF Deliverable(Unwrap(idt).double_fault) THEN "handler" ELSE "triple_fault"
    /\ rsp' = IF Deliverable(Unwrap(idt).double_fault)
              THEN ExceptionFrame(DeliveryStack(Unwrap(idt).double_fault.options)) ELSE rsp
    /\ UNCHANGED <<pc, tss_ptr, ist_stack, below, tss, gdt_tss, tr, idt>>
    /\ Frame("fault")

\* test_double_fault_handler: [ok], exit_qemu; double_fault_handler: panic
DoubleFaultHandler ==
    /\ pc = "fault"
    /\ fault_pc = "handler"
    /\ fault_pc' = IF Unwrap(idt).double_fault.handler = Some("test_double_fault_handler")
                   THEN "exit_qemu" ELSE "panic"
    /\ UNCHANGED <<pc, rsp, tss_ptr, ist_stack, below, tss, gdt_tss, tr, idt>>
    /\ Frame("fault")

NextFault ==
    \/ GdtInit
    \/ InitIdt
    \/ StackOverflow
    \/ PageFault
    \/ DoubleFault
    \/ DoubleFaultHandler

SpecFault == InitFault /\ [][NextFault]_vars

\* the handler runs with its exception frame inside the STACK static
OnIstStack ==
    /\ ~Below(rsp, ist_stack)
    /\ ~Below(AddBytes(ist_stack, 20 * 1024), AddBytes(rsp, 6 * 8))

(* C20: when the kernel stack overflows, the double-fault handler is       *)
(* invoked on the dedicated IST stack and the processor never triple       *)
(* faults: the double-fault entry of the loaded IDT carries the IST index  *)
(* DOUBLE_FAULT_IST_INDEX + 1, IST[0] of the loaded TSS is the top of the  *)
(* 20 KiB static stack, the page fault of the overflow becomes a double    *)
(* fault, and the double fault enters the handler.                         *)
C20_DoubleFaultStack ==
    /\ [](pc = "fault" =>
            /\ fault_pc # "triple_fault"
            /\ (idt # None =>
                    IstField(Unwrap(idt).double_fault.options) = DOUBLE_FAULT_IST_INDEX + 1)
            /\ (tr # None =>
                    CpuTss.interrupt_stack_table[0] = AddBytes(ist_stack, 20 * 1024))
            /\ (fault_pc \in {"handler", "exit_qemu", "panic"} => OnIstStack))
    /\ [][fault_pc = "page_fault" => fault_pc' = "double_fault"]_vars
    /\ [][fault_pc = "double_fault" => fault_pc' = "handler"]_vars

\* the kernel's IDT, a mapped page below the stack, and the handler has run
C20_Witness ==
    /\ pc = "fault"
    /\ fault_pc = "panic"
    /\ below > 0
    /\ Present(Unwrap(idt).page_fault.options)
    /\ Below(rsp, AddBytes(ist_stack, STACK_SIZE))

-----------------------------------------------------------------------------
(* The real-time clock: src/chrono.rs and src/apic.rs, read_rtc.  The RTC  *)
(* holds the time in the format its status register B selects: bit 2 set   *)
(* for binary, clear for BCD; bit 1 set for 24-hour, clear for 12-hour     *)
(* with bit 7 of the hour register set from noon on.                       *)

\* what the hardware stores
to_bcd(v) == (v \div 10) * 16 + (v % 10)
Hour12(h) == (IF h % 12 = 0 THEN 12 ELSE h % 12) + (IF h >= 12 THEN 128 ELSE 0)
Encoded(v, register_b) == IF BitAnd(register_b, 4) = 0 THEN to_bcd(v) ELSE v
EncodedHour(h, register_b) ==
    IF BitAnd(register_b, 2) # 0 THEN Encoded(h, register_b)
    ELSE Encoded(Hour12(h) % 128, register_b) + 128 * (Hour12(h) \div 128)

\* the registers of the RTC at the time t
Registers(t, register_b) ==
    [second |-> Encoded(t.second, register_b), minute |-> Encoded(t.minute, register_b),
     hour |-> EncodedHour(t.hour, register_b), day |-> Encoded(t.day, register_b),
     month |-> Encoded(t.month, register_b), year |-> Encoded(t.year, register_b),
     century |-> Encoded(t.century, register_b), register_b |-> register_b]

Times ==
    { [second |-> 30, minute |-> m, hour |-> h, day |-> 6, month |-> 11, year |-> 26,
       century |-> 20] : h \in 0..23, m \in {9, 59} }
RegisterBs == {0, 2, 4, 6}

\* (x & 0x0F) + ((x / 16) * 10)
bcd_to_binary(x) == (BitAnd(x, 15) + (x \div 16) * 10) % 256

\* ( (hour & 0x0F) + (((hour & 0x70) / 16) * 10) ) | (hour & 0x80)
hour_bcd_to_binary(hour) ==
    BitOr(BitAnd(hour, 15) + (BitAnd(hour, 112) \div 16) * 10, BitAnd(hour, 128))

\* the block under register_b & 0x04 == 0
to_binary(r) ==
    IF BitAnd(r.register_b, 4) = 0
    THEN [second |-> bcd_to_binary(r.second), minute |-> bcd_to_binary(r.minute),
          hour |-> hour_bcd_to_binary(r.hour), day |-> bcd_to_binary(r.day),
          month |-> bcd_to_binary(r.month), year |-> bcd_to_binary(r.year),
          century |-> bcd_to_binary(r.century), register_b |-> r.register_b]
    ELSE r

\* if register_b & 0x02 == 0 && hour & 0x80 == 1 { hour = ((hour & 0x7F) + 12) % 24 }
to_24_hour(register_b, hour) ==
    IF BitAnd(register_b, 2) = 0 /\ BitAnd(hour, 128) = 1
    THEN (BitAnd(hour, 127) + 12) % 24
    ELSE hour

\* the fields read_rtc passes to with_ymd_and_hms
read_rtc(r) == [to_binary(r) EXCEPT !.hour = to_24_hour(r.register_b, to_binary(r).hour)]

\* with_ymd_and_hms returns a single time
ValidTime(t) ==
    /\ t.month \in 1..12
    /\ t.day \in 1..31
    /\ t.hour < 24
    /\ t.minute < 60
    /\ t.second < 60

InitRtc ==
    /\ pc = "rtc"
    /\ rtc_pc = "read"
    /\ \E t \in Times : \E b \in RegisterBs : cmos = Some(Registers(t, b))
    /\ rtc_time = None
    /\ Idle("rtc")

\* read_rtc, the registers being read between two updates; .unwrap() panics
\* when the fields are no time
ReadRtc ==
    /\ pc = "rtc"
    /\ rtc_pc = "read"
    /\ rtc_time' = Some(read_rtc(Unwrap(cmos)))
    /\ rtc_pc' = IF ValidTime(read_rtc(Unwrap(cmos))) THEN "done" ELSE "panic"
    /\ UNCHANGED <<pc, cmos>>
    /\ Frame("rtc")

NextRtc == ReadRtc

SpecRtc == InitRtc /\ [][NextRtc]_vars

\* the hour register after the BCD-to-binary conversion
BinaryHour == to_binary(Unwrap(cmos)).hour

(* C28: read_rtc returns the hour in 24-hour form: in 12-hour mode with    *)
(* the PM bit of the hour register set the returned hour is                *)
(* ((hour & 0x7F) + 12) mod 24, hour being the register after the          *)
(* BCD-to-binary conversion.                                               *)
C28_Hour24 ==
    (pc = "rtc" /\ rtc_pc # "read"
        /\ BitAnd(Unwrap(cmos).register_b, 2) = 0 /\ BitAnd(BinaryHour, 128) = 128) =>
        /\ rtc_pc = "done"
        /\ Unwrap(rtc_time).hour = (BitAnd(BinaryHour, 127) + 12) % 24

====
